---- MODULE Spec2Model ----
(***************************************************************************)
(* Verified Impact Ledger (verifiedImpactLedger.ts): token issuance,       *)
(* revocation, ledger blocks, token and chain verification.                *)
(*                                                                         *)
(* JavaScript strings that the program computes (ids, ISO dates, digests)  *)
(* are sequences of UTF-16 code units; strings the caller supplies are     *)
(* TLA+ strings, turned into code units by Codes when they are serialized. *)
(* JavaScript objects are sequences of <<key, value>> pairs in insertion   *)
(* order; JSON values are tagged records [k |-> kind, v |-> payload].      *)
(***************************************************************************)
EXTENDS Integers, Sequences, FiniteSets, TLC

\* ------------------------------------------------------------------ bounds
MaxClock == 1
MaxTokens == 2
MaxLedger == 2
MaxList == 3
MaxOrgTokens == 4
MaxMissions == 3
HistoryLen == 10

\* --------------------------------------------------------- character codes
\* str.charCodeAt(i) for every string literal and caller-supplied string.
Codes(s) ==
  CASE s = "" -> <<>>
    [] s = "volunteer-1" -> <<118, 111, 108, 117, 110, 116, 101, 101, 114, 45, 49>>
    [] s = "volunteer-2" -> <<118, 111, 108, 117, 110, 116, 101, 101, 114, 45, 50>>
    [] s = "cleanup-north" -> <<99, 108, 101, 97, 110, 117, 112, 45, 110, 111, 114, 116, 104>>
    [] s = "cleanup-south" -> <<99, 108, 101, 97, 110, 117, 112, 45, 115, 111, 117, 116, 104>>
    [] s = "action" -> <<97, 99, 116, 105, 111, 110>>
    [] s = "blockId" -> <<98, 108, 111, 99, 107, 73, 100>>
    [] s = "currentHash" -> <<99, 117, 114, 114, 101, 110, 116, 72, 97, 115, 104>>
    [] s = "previousHash" -> <<112, 114, 101, 118, 105, 111, 117, 115, 72, 97, 115, 104>>
    [] s = "signatures" -> <<115, 105, 103, 110, 97, 116, 117, 114, 101, 115>>
    [] s = "timestamp" -> <<116, 105, 109, 101, 115, 116, 97, 109, 112>>
    [] s = "token" -> <<116, 111, 107, 101, 110>>
    [] s = "userId" -> <<117, 115, 101, 114, 73, 100>>
    [] s = "expirationDate" -> <<101, 120, 112, 105, 114, 97, 116, 105, 111, 110, 68, 97, 116, 101>>
    [] s = "impactSignalStrength" -> <<105, 109, 112, 97, 99, 116, 83, 105, 103, 110, 97, 108, 83, 116, 114, 101, 110, 103, 116, 104>>
    [] s = "issuanceDate" -> <<105, 115, 115, 117, 97, 110, 99, 101, 68, 97, 116, 101>>
    [] s = "metadata" -> <<109, 101, 116, 97, 100, 97, 116, 97>>
    [] s = "missionId" -> <<109, 105, 115, 115, 105, 111, 110, 73, 100>>
    [] s = "missionTitle" -> <<109, 105, 115, 115, 105, 111, 110, 84, 105, 116, 108, 101>>
    [] s = "nonTransferable" -> <<110, 111, 110, 84, 114, 97, 110, 115, 102, 101, 114, 97, 98, 108, 101>>
    [] s = "organization" -> <<111, 114, 103, 97, 110, 105, 122, 97, 116, 105, 111, 110>>
    [] s = "organizationSignature" -> <<111, 114, 103, 97, 110, 105, 122, 97, 116, 105, 111, 110, 83, 105, 103, 110, 97, 116, 117, 114, 101>>
    [] s = "skillsMastered" -> <<115, 107, 105, 108, 108, 115, 77, 97, 115, 116, 101, 114, 101, 100>>
    [] s = "status" -> <<115, 116, 97, 116, 117, 115>>
    [] s = "tokenId" -> <<116, 111, 107, 101, 110, 73, 100>>
    [] s = "verificationHash" -> <<118, 101, 114, 105, 102, 105, 99, 97, 116, 105, 111, 110, 72, 97, 115, 104>>
    [] s = "organizationId" -> <<111, 114, 103, 97, 110, 105, 122, 97, 116, 105, 111, 110, 73, 100>>
    [] s = "signature" -> <<115, 105, 103, 110, 97, 116, 117, 114, 101>>
    [] s = "revocationReason" -> <<114, 101, 118, 111, 99, 97, 116, 105, 111, 110, 82, 101, 97, 115, 111, 110>>
    [] s = "revocationDate" -> <<114, 101, 118, 111, 99, 97, 116, 105, 111, 110, 68, 97, 116, 101>>
    [] s = "revokerSignature" -> <<114, 101, 118, 111, 107, 101, 114, 83, 105, 103, 110, 97, 116, 117, 114, 101>>
    [] s = "measurableOutcomes" -> <<109, 101, 97, 115, 117, 114, 97, 98, 108, 101, 79, 117, 116, 99, 111, 109, 101, 115>>
    [] s = "ALERT-" -> <<65, 76, 69, 82, 84, 45>>
    [] s = "source" -> <<115, 111, 117, 114, 99, 101>>
    [] s = "u1" -> <<117, 49>>
    [] s = "u2" -> <<117, 50>>
    [] s = "m1" -> <<109, 49>>
    [] s = "m2" -> <<109, 50>>
    [] s = "orgA" -> <<111, 114, 103, 65>>
    [] s = "orgB" -> <<111, 114, 103, 66>>
    [] s = "Cleanup" -> <<67, 108, 101, 97, 110, 117, 112>>
    [] s = "s1" -> <<115, 49>>
    [] s = "sigA" -> <<115, 105, 103, 65>>
    [] s = "sigR" -> <<115, 105, 103, 82>>
    [] s = "web" -> <<119, 101, 98>>
    [] s = "fraud" -> <<102, 114, 97, 117, 100>>
    [] s = "issue" -> <<105, 115, 115, 117, 101>>
    [] s = "active" -> <<97, 99, 116, 105, 118, 101>>
    [] s = "revoked" -> <<114, 101, 118, 111, 107, 101, 100>>
    [] s = "expired" -> <<101, 120, 112, 105, 114, 101, 100>>
    [] s = "genesis" -> <<103, 101, 110, 101, 115, 105, 115>>
    [] s = "true" -> <<116, 114, 117, 101>>
    [] s = "false" -> <<102, 97, 108, 115, 101>>
    [] s = "null" -> <<110, 117, 108, 108>>
    [] s = "TOKEN-" -> <<84, 79, 75, 69, 78, 45>>
    [] s = "BLOCK-" -> <<66, 76, 79, 67, 75, 45>>
    [] s = "k3x9q2a" -> <<107, 51, 120, 57, 113, 50, 97>>
    [] s = "p0m4z7b" -> <<112, 48, 109, 52, 122, 55, 98>>

\* Number.prototype.toString(10) of an integer, as code units.
RECURSIVE DecDigits(_)
DecDigits(n) ==
  IF n < 10 THEN <<48 + n>> ELSE DecDigits(n \div 10) \o <<48 + (n % 10)>>

DecCodes(n) == IF n < 0 THEN <<45>> \o DecDigits(0 - n) ELSE DecDigits(n)

\* A number left-padded with zeros to a fixed width (ISO date fields).
RECURSIVE Pad(_, _)
Pad(n, width) ==
  IF width = 0 THEN <<>> ELSE Pad(n \div 10, width - 1) \o <<48 + (n % 10)>>

\* Number.prototype.toString(16) digit.
HexDigit(d) == IF d < 10 THEN 48 + d ELSE 87 + d

RECURSIVE HexDigits(_)
HexDigits(n) ==
  IF n < 16 THEN <<HexDigit(n)>> ELSE HexDigits(n \div 16) \o <<HexDigit(n % 16)>>

RECURSIVE HexPad(_, _)
HexPad(n, width) ==
  IF width = 0 THEN <<>> ELSE HexPad(n \div 16, width - 1) \o <<HexDigit(n % 16)>>

\* Date.prototype.toISOString of a clock value (milliseconds since the epoch),
\* for instants within January 1970.
toISOString(ms) ==
  LET day  == ms \div 86400000
      hour == (ms \div 3600000) % 24
      min  == (ms \div 60000) % 60
      sec  == (ms \div 1000) % 60
  IN  <<49, 57, 55, 48, 45, 48, 49, 45>> \o Pad(day + 1, 2) \o <<84>>
        \o Pad(hour, 2) \o <<58>> \o Pad(min, 2) \o <<58>> \o Pad(sec, 2)
        \o <<46>> \o Pad(ms % 1000, 3) \o <<90>>

\* String.prototype.slice(0, n).
Slice0(str, n) == SubSeq(str, 1, IF Len(str) < n THEN Len(str) ELSE n)

\* Comparison of two strings by code units, as Array.prototype.sort() does
\* without a comparator.
RECURSIVE StrLessFrom(_, _, _)
StrLessFrom(a, b, i) ==
  IF i > Len(a) THEN i <= Len(b)
  ELSE IF i > Len(b) THEN FALSE
  ELSE IF a[i] # b[i] THEN a[i] < b[i]
  ELSE StrLessFrom(a, b, i + 1)

StrLess(a, b) == StrLessFrom(a, b, 1)

\* ------------------------------------------------------------- JSON values
JStr(c)  == [k |-> "str",  v |-> c]
JNum(n)  == [k |-> "num",  v |-> n]
JBool(b) == [k |-> "bool", v |-> b]
JNull    == [k |-> "null", v |-> 0]
JArr(s)  == [k |-> "arr",  v |-> s]
JObj(ps) == [k |-> "obj",  v |-> ps]

\* Object.keys(obj): the keys in insertion order.
ObjectKeys(obj) == [i \in 1..Len(obj.v) |-> obj.v[i][1]]

\* Every property name of the program's objects.
KeyNames ==
  {"tokenId", "userId", "missionId", "missionTitle", "issuanceDate", "expirationDate",
   "organization", "impactSignalStrength", "skillsMastered", "organizationSignature",
   "nonTransferable", "status", "metadata", "verificationHash",
   "blockId", "timestamp", "action", "token", "previousHash", "signatures", "currentHash",
   "organizationId", "signature",
   "revocationReason", "revocationDate", "revokerSignature", "measurableOutcomes", "source"}

\* The property names in the order of their code units: each name goes to
\* the place given by the number of names that compare below it.
RECURSIVE PlaceByRank(_, _, _)
PlaceByRank(ranked, r, n) ==
  IF r >= n THEN <<>>
  ELSE <<(CHOOSE p \in ranked : p[1] = r)[2]>> \o PlaceByRank(ranked, r + 1, n)

KeyNamesInOrder ==
  LET items == {<<key, Codes(key)>> : key \in KeyNames}
      ranked == {<<Cardinality({b \in items : StrLess(b[2], a[2])}), a[1]>> : a \in items}
  IN  PlaceByRank(ranked, 0, Cardinality(KeyNames))

\* Object.keys(obj) passed on without the .sort() call.
SortKeysOmitted(keys) == keys

\* Array.prototype.sort() on an array of distinct property names: the names
\* of the array, in the order of their code units.
SortKeys(keys) ==
  SelectSeq(KeyNamesInOrder, LAMBDA key : \E i \in 1..Len(keys) : keys[i] = key)

\* obj[key], or "undefined" when obj has no such property.
HasKey(obj, key) == \E i \in 1..Len(obj.v) : obj.v[i][1] = key
Get(obj, key) == obj.v[CHOOSE i \in 1..Len(obj.v) : obj.v[i][1] = key][2]

\* JSON.stringify(value, allow): allow is the replacer array.  It is the
\* property list of EVERY object of the value, nested ones included: only
\* the listed keys are written, in the order of the list.
RECURSIVE Stringify(_, _), StringifyMembers(_, _, _, _), StringifyElems(_, _, _)
Stringify(j, allow) ==
  CASE j.k = "str"  -> <<34>> \o j.v \o <<34>>
    [] j.k = "num"  -> DecCodes(j.v)
    [] j.k = "bool" -> IF j.v THEN Codes("true") ELSE Codes("false")
    [] j.k = "null" -> Codes("null")
    [] j.k = "arr"  -> <<91>> \o StringifyElems(j.v, allow, 1) \o <<93>>
    [] j.k = "obj"  -> <<123>> \o StringifyMembers(j, allow, 1, TRUE) \o <<125>>

StringifyElems(elems, allow, i) ==
  IF i > Len(elems) THEN <<>>
  ELSE (IF i > 1 THEN <<44>> ELSE <<>>)
         \o Stringify(elems[i], allow) \o StringifyElems(elems, allow, i + 1)

StringifyMembers(obj, allow, i, first) ==
  IF i > Len(allow) THEN <<>>
  ELSE IF HasKey(obj, allow[i])
       THEN (IF first THEN <<>> ELSE <<44>>)
              \o <<34>> \o Codes(allow[i]) \o <<34, 58>>
              \o Stringify(Get(obj, allow[i]), allow)
              \o StringifyMembers(obj, allow, i + 1, FALSE)
       ELSE StringifyMembers(obj, allow, i + 1, first)

\* ------------------------------------------------------------------ digest
\* One round of hashString's loop on a 32-bit value kept as two 16-bit
\* halves <<hi, lo>>: hash = ((hash << 5) - hash + char) | 0.
HashStep(h, char) ==
  LET t == 31 * h[2] + char
  IN  <<(31 * h[1] + (t \div 65536)) % 65536, t % 65536>>

\* Three rounds at once: ((h * 31 + c1) * 31 + c2) * 31 + c3 modulo 2^32
\* (every intermediate value stays below 2^31).
HashStep3(h, c1, c2, c3) ==
  LET t == 29791 * h[2] + 961 * c1 + 31 * c2 + c3
  IN  <<(29791 * h[1] + (t \div 65536)) % 65536, t % 65536>>

\* The loop over str[lo..hi] started from h, round after round.
RECURSIVE HashRun(_, _, _, _)
HashRun(str, lo, hi, h) ==
  IF lo > hi THEN h
  ELSE IF lo + 2 <= hi
       THEN HashRun(str, lo + 3, hi, HashStep3(h, str[lo], str[lo + 1], str[lo + 2]))
       ELSE HashRun(str, lo + 1, hi, HashStep(h, str[lo]))

\* The same loop on a long string: the range is halved down to short runs
\* so that the evaluation depth stays small; the rounds are still applied in
\* index order.  (A value bound by a one-element set is computed once,
\* before it is used.)
RECURSIVE HashLoop(_, _, _, _)
HashLoop(str, lo, hi, h) ==
  IF hi - lo < 48 THEN HashRun(str, lo, hi, h)
  ELSE LET mid == (lo + hi) \div 2
       IN  CHOOSE r \in {HashLoop(str, mid + 1, hi, left) :
                           left \in {HashLoop(str, lo, mid, h)}} : TRUE

\* Math.abs of the signed 32-bit value <<hi, lo>>, again as two halves
\* (Math.abs(-2^31) = 2^31 = <<32768, 0>>).
Int32Abs(h) ==
  IF h[1] < 32768 THEN h
  ELSE <<(65535 - h[1] + (IF h[2] = 0 THEN 1 ELSE 0)) % 65536, (65536 - h[2]) % 65536>>

hashString(str) ==
  LET hashes == {Int32Abs(HashLoop(s, 1, Len(s), <<0, 0>>)) : s \in {str}}
  IN  CHOOSE hex \in {IF a[1] = 0 THEN HexDigits(a[2])
                      ELSE HexDigits(a[1]) \o HexPad(a[2], 4) : a \in hashes} : TRUE

\* JSON.stringify(obj, Object.keys(obj).sort())
StringifySorted(obj) ==
  CHOOSE str \in {Stringify(obj, allow) : allow \in {SortKeys(ObjectKeys(obj))}} : TRUE

\* ------------------------------------------------------------ token, block
\* The token as the JavaScript object the code builds: keys in the insertion
\* order of issueVerifiedImpactToken ({...tokenWithoutHash, verificationHash});
\* revokeToken's spread keeps that order.  tokenWithoutHash is the record
\* without the verificationHash field.
TokenObj(token) ==
  JObj(<< <<"tokenId", JStr(token.tokenId)>>,
          <<"userId", JStr(Codes(token.userId))>>,
          <<"missionId", JStr(Codes(token.missionId))>>,
          <<"missionTitle", JStr(Codes(token.missionTitle))>>,
          <<"issuanceDate", JStr(token.issuanceDate)>>,
          <<"expirationDate", token.expirationDate>>,
          <<"organization", JStr(Codes(token.organization))>>,
          <<"impactSignalStrength", JNum(token.impactSignalStrength)>>,
          <<"skillsMastered",
            JArr([i \in 1..Len(token.skillsMastered) |-> JStr(Codes(token.skillsMastered[i]))])>>,
          <<"organizationSignature", JStr(Codes(token.organizationSignature))>>,
          <<"nonTransferable", JBool(token.nonTransferable)>>,
          <<"status", JStr(Codes(token.status))>>,
          <<"metadata",
            JObj([i \in 1..Len(token.metadata) |->
                    <<token.metadata[i][1], JStr(token.metadata[i][2])>>])>> >>
       \o (IF "verificationHash" \in DOMAIN token
           THEN << <<"verificationHash", JStr(token.verificationHash)>> >>
           ELSE <<>>))

\* The block as a JavaScript object: keys in the insertion order of
\* recordLedgerEntry ({...blockWithoutHash, currentHash}).  blockWithoutHash
\* is the record without the currentHash field.
BlockObj(block) ==
  JObj(<< <<"blockId", JStr(block.blockId)>>,
          <<"timestamp", JStr(block.timestamp)>>,
          <<"userId", JStr(Codes(block.userId))>>,
          <<"action", JStr(Codes(block.action))>>,
          <<"token", TokenObj(block.token)>>,
          <<"previousHash", JStr(block.previousHash)>>,
          <<"signatures",
            JArr([i \in 1..Len(block.signatures) |->
                    JObj(<< <<"organizationId", JStr(Codes(block.signatures[i].organizationId))>>,
                            <<"signature", JStr(Codes(block.signatures[i].signature))>>,
                            <<"timestamp", JStr(block.signatures[i].timestamp)>> >>)])>> >>
       \o (IF "currentHash" \in DOMAIN block
           THEN << <<"currentHash", JStr(block.currentHash)>> >>
           ELSE <<>>))

\* JSON.stringify(token, Object.keys(token).sort())
TokenString(token) ==
  CHOOSE str \in {StringifySorted(obj) : obj \in {TokenObj(token)}} : TRUE

computeTokenHash(token) == hashString(TokenString(token))

\* JSON.stringify(block, Object.keys(block).sort())
BlockString(block) ==
  CHOOSE str \in {StringifySorted(obj) : obj \in {BlockObj(block)}} : TRUE

computeBlockHash(block) == hashString(BlockString(block))

\* `TOKEN-${userId.slice(0, 6)}-${missionId.slice(0, 6)}-${Date.now()}`
generateTokenId(userId, missionId, now) ==
  Codes("TOKEN-") \o Slice0(Codes(userId), 6) \o <<45>>
    \o Slice0(Codes(missionId), 6) \o <<45>> \o DecCodes(now)

\* `BLOCK-${Date.now()}-${Math.random().toString(36).slice(2, 9)}`; rnd is
\* the random suffix.
generateBlockId(now, rnd) ==
  Codes("BLOCK-") \o DecCodes(now) \o <<45>> \o Codes(rnd)

\* ------------------------------------------------------------- operations
\* {...tokenWithoutHash, verificationHash}
WithVerificationHash(w, verificationHash) ==
  [tokenId |-> w.tokenId, userId |-> w.userId, missionId |-> w.missionId,
   missionTitle |-> w.missionTitle, issuanceDate |-> w.issuanceDate,
   expirationDate |-> w.expirationDate, organization |-> w.organization,
   impactSignalStrength |-> w.impactSignalStrength,
   skillsMastered |-> w.skillsMastered,
   organizationSignature |-> w.organizationSignature,
   nonTransferable |-> w.nonTransferable, status |-> w.status,
   metadata |-> w.metadata, verificationHash |-> verificationHash]

\* {...blockWithoutHash, currentHash}
WithCurrentHash(w, currentHash) ==
  [blockId |-> w.blockId, timestamp |-> w.timestamp, userId |-> w.userId,
   action |-> w.action, token |-> w.token, previousHash |-> w.previousHash,
   signatures |-> w.signatures, currentHash |-> currentHash]

\* issueVerifiedImpactToken computing the hash before the user id is filled
\* in.
issueVerifiedImpactTokenEarlyHash(userId, missionData, organizationSignature, metadata, now) ==
  LET tokenWithoutHash ==
        [tokenId |-> generateTokenId(userId, missionData.id, now),
         userId |-> userId,
         missionId |-> missionData.id,
         missionTitle |-> missionData.title,
         issuanceDate |-> toISOString(now),
         expirationDate |-> JNull,
         organization |-> missionData.organization,
         impactSignalStrength |-> missionData.impactSignalStrength,
         skillsMastered |-> missionData.skillsMastered,
         organizationSignature |-> organizationSignature,
         nonTransferable |-> TRUE,
         status |-> "active",
         metadata |-> metadata]
  IN  WithVerificationHash(tokenWithoutHash,
        computeTokenHash([tokenWithoutHash EXCEPT !.userId = ""]))

\* issueVerifiedImpactToken at clock value now.  It validates nothing.
issueVerifiedImpactToken(userId, missionData, organizationSignature, metadata, now) ==
  LET tokenWithoutHash ==
        [tokenId |-> generateTokenId(userId, missionData.id, now),
         userId |-> userId,
         missionId |-> missionData.id,
         missionTitle |-> missionData.title,
         issuanceDate |-> toISOString(now),
         expirationDate |-> JNull,
         organization |-> missionData.organization,
         impactSignalStrength |-> missionData.impactSignalStrength,
         skillsMastered |-> missionData.skillsMastered,
         organizationSignature |-> organizationSignature,
         nonTransferable |-> TRUE,
         status |-> "active",
         metadata |-> metadata]
  IN  WithVerificationHash(tokenWithoutHash, computeTokenHash(tokenWithoutHash))

\* recordLedgerEntry at clock value now with random block-id suffix rnd.
\* The action is always 'issue'; the link is whatever the caller passes.
recordLedgerEntry(token, previousBlockHash, organizationSignatures, now, rnd) ==
  LET blockWithoutHash ==
        [blockId |-> generateBlockId(now, rnd),
         timestamp |-> toISOString(now),
         userId |-> token.userId,
         action |-> "issue",
         token |-> token,
         previousHash |-> previousBlockHash,
         signatures |-> [i \in 1..Len(organizationSignatures) |->
                           [organizationId |-> organizationSignatures[i].organizationId,
                            signature |-> organizationSignatures[i].signature,
                            timestamp |-> toISOString(now)]]]
  IN  WithCurrentHash(blockWithoutHash, computeBlockHash(blockWithoutHash))

\* verifyTokenAuthenticity: the digest is recomputed over the token as
\* given, its verificationHash key included.
\* verifyTokenAuthenticity without the check of the entry's signatures.
verifyTokenAuthenticityUnsigned(token, ledgerEntry) ==
  LET issues ==
        (IF computeTokenHash(token) # token.verificationHash
         THEN <<"Token has been tampered with. Hash mismatch detected.">> ELSE <<>>)
        \o (IF token.status = "revoked" THEN <<"Token has been revoked.">> ELSE <<>>)
        \o (IF ~token.nonTransferable
            THEN <<"Token does not have non-transferable flag.">> ELSE <<>>)
  IN  [isValid |-> Len(issues) = 0, issues |-> issues]

verifyTokenAuthenticity(token, ledgerEntry) ==
  LET issues ==
        (IF computeTokenHash(token) # token.verificationHash
         THEN <<"Token has been tampered with. Hash mismatch detected.">> ELSE <<>>)
        \o (IF token.status = "revoked" THEN <<"Token has been revoked.">> ELSE <<>>)
        \o (IF ~token.nonTransferable
            THEN <<"Token does not have non-transferable flag.">> ELSE <<>>)
        \o (IF Len(ledgerEntry.signatures) = 0
            THEN <<"No organization signatures present.">> ELSE <<>>)
  IN  [isValid |-> Len(issues) = 0, issues |-> issues]

\* {...target, key: value} on an object kept as <<key, value>> pairs: an
\* existing key keeps its place, a new key goes last.
SetKey(pairs, key, value) ==
  IF \E i \in 1..Len(pairs) : pairs[i][1] = key
  THEN [i \in 1..Len(pairs) |-> IF pairs[i][1] = key THEN <<key, value>> ELSE pairs[i]]
  ELSE Append(pairs, <<key, value>>)

\* revokeToken handing the token over to the revoker: userId is overwritten
\* with the revoker's signature and the flag is cleared.
revokeTokenReassigning(token, reason, revokerSignature, now) ==
  LET revokedToken ==
        [token EXCEPT
           !.status = "revoked",
           !.userId = revokerSignature,
           !.nonTransferable = FALSE,
           !.metadata = SetKey(SetKey(SetKey(token.metadata,
                                  "revocationReason", Codes(reason)),
                                  "revocationDate", toISOString(now)),
                                  "revokerSignature", Codes(revokerSignature))]
  IN  [revokedToken EXCEPT !.verificationHash = computeTokenHash(revokedToken)]

\* revokeToken building the metadata of the copy from the three revocation
\* entries only, without spreading token.metadata.
revokeTokenFreshMetadata(token, reason, revokerSignature, now) ==
  LET revokedToken ==
        [token EXCEPT
           !.status = "revoked",
           !.metadata = << <<"revocationReason", Codes(reason)>>,
                           <<"revocationDate", toISOString(now)>>,
                           <<"revokerSignature", Codes(revokerSignature)>> >>]
  IN  [revokedToken EXCEPT !.verificationHash = computeTokenHash(revokedToken)]

\* revokeToken at clock value now.  The result is a copy; the digest is
\* computed while the copy still holds the old verificationHash.
revokeToken(token, reason, revokerSignature, now) ==
  LET revokedToken ==
        [token EXCEPT
           !.status = "revoked",
           !.metadata = SetKey(SetKey(SetKey(token.metadata,
                                  "revocationReason", Codes(reason)),
                                  "revocationDate", toISOString(now)),
                                  "revokerSignature", Codes(revokerSignature))]
  IN  [revokedToken EXCEPT !.verificationHash = computeTokenHash(revokedToken)]

\* getUserTokenHistory without the test of entry.action.
getUserTokenHistoryAnyAction(userId, entries) ==
  LET kept == SelectSeq(entries, LAMBDA entry : entry.userId = userId)
  IN  [i \in 1..Len(kept) |-> kept[i].token]

\* getUserTokenHistory keeping only the entries whose token is still active.
getUserTokenHistoryActive(userId, entries) ==
  LET kept == SelectSeq(entries, LAMBDA entry :
                entry.userId = userId /\ entry.token.status = "active")
  IN  [i \in 1..Len(kept) |-> kept[i].token]

\* getUserTokenHistory
getUserTokenHistory(userId, entries) ==
  LET kept == SelectSeq(entries, LAMBDA entry : entry.userId = userId /\ entry.action = "issue")
  IN  [i \in 1..Len(kept) |-> kept[i].token]

\* verifyLedgerIntegrity: the loop starts at index 1; block numbers in the
\* report are the code's 0-based indices.
RECURSIVE IntegrityLoop(_, _)
IntegrityLoop(entries, i) ==
  IF i >= Len(entries) THEN <<>>
  ELSE LET currentBlock == entries[i + 1]
           previousBlock == entries[i]
       IN  (IF currentBlock.previousHash # previousBlock.currentHash
            THEN <<[kind |-> "ChainBroken", block |-> i]>> ELSE <<>>)
           \o (IF computeBlockHash(currentBlock) # currentBlock.currentHash
               THEN <<[kind |-> "HashMismatch", block |-> i]>> ELSE <<>>)
           \o IntegrityLoop(entries, i + 1)

\* verifyLedgerIntegrity with entry 0 checked as well: its link against
\* 'genesis' and its hash.
verifyLedgerIntegrityFromGenesis(entries) ==
  LET first == IF Len(entries) = 0 THEN <<>>
               ELSE (IF entries[1].previousHash # Codes("genesis")
                     THEN <<[kind |-> "ChainBroken", block |-> 0]>> ELSE <<>>)
                    \o (IF computeBlockHash(entries[1]) # entries[1].currentHash
                        THEN <<[kind |-> "HashMismatch", block |-> 0]>> ELSE <<>>)
      brokenLinks == first \o IntegrityLoop(entries, 1)
  IN  [isIntact |-> Len(brokenLinks) = 0, brokenLinks |-> brokenLinks]

verifyLedgerIntegrity(entries) ==
  LET brokenLinks == IntegrityLoop(entries, 1)
  IN  [isIntact |-> Len(brokenLinks) = 0, brokenLinks |-> brokenLinks]

\* `ALERT-${Date.now()}-${Math.random().toString(36).slice(2, 9)}`
generateAlertId(now, rnd) ==
  Codes("ALERT-") \o DecCodes(now) \o <<45>> \o Codes(rnd)

\* detectDuplicateClaims without the status test in the find predicate.
detectDuplicateClaimsAnyStatus(userId, missionId, existingTokens, now, rnd) ==
  IF \E i \in 1..Len(existingTokens) :
       /\ existingTokens[i].userId = userId
       /\ existingTokens[i].missionId = missionId
  THEN <<[alertId |-> generateAlertId(now, rnd),
          userId |-> userId,
          alertType |-> "duplicate_claim",
          severity |-> "high",
          description |-> <<"same mission twice", missionId>>,
          timestamp |-> toISOString(now),
          action |-> "block"]>>
  ELSE <<>>

\* detectDuplicateClaims: null is the empty sequence, an alert a sequence
\* of one.  The description is kept as its template name and the mission.
detectDuplicateClaims(userId, missionId, existingTokens, now, rnd) ==
  IF \E i \in 1..Len(existingTokens) :
       /\ existingTokens[i].userId = userId
       /\ existingTokens[i].missionId = missionId
       /\ existingTokens[i].status = "active"
  THEN <<[alertId |-> generateAlertId(now, rnd),
          userId |-> userId,
          alertType |-> "duplicate_claim",
          severity |-> "high",
          description |-> <<"same mission twice", missionId>>,
          timestamp |-> toISOString(now),
          action |-> "block"]>>
  ELSE <<>>

\* 7 * 24 * 60 * 60 * 1000
WeekMs == 604800000

\* t.metadata.measurableOutcomes is missing, or falsy, or has no keys
\* (metadata values are strings here: '' is falsy, and Object.keys of a
\* non-empty string is not empty).
NoMeasurableOutcomes(token) ==
  \A i \in 1..Len(token.metadata) :
     token.metadata[i][1] = "measurableOutcomes" => token.metadata[i][2] = <<>>

\* detectSuspiciousPatterns counting revoked and expired tokens among the
\* recent ones.
detectSuspiciousPatternsAnyStatus(userId, userTokens, now, rnds) ==
  LET oneWeekAgo == toISOString(now - WeekMs)
      recentTokens == SelectSeq(userTokens, LAMBDA tk :
                        StrLess(oneWeekAgo, tk.issuanceDate))
      noOutcomeTokens == SelectSeq(userTokens, LAMBDA tk :
                           NoMeasurableOutcomes(tk) /\ tk.status = "active")
      orgs == {userTokens[i].organization : i \in 1..Len(userTokens)}
  IN  (IF Len(recentTokens) > 2
       THEN <<[alertId |-> generateAlertId(now, rnds[1]),
               userId |-> userId,
               alertType |-> "suspicious_pattern",
               severity |-> "medium",
               description |-> <<"rapid acquisition", Len(recentTokens)>>,
               timestamp |-> toISOString(now),
               action |-> "investigate"]>>
       ELSE <<>>)
      \o (IF 2 * Len(noOutcomeTokens) > Len(userTokens)
          THEN <<[alertId |-> generateAlertId(now, rnds[2]),
                  userId |-> userId,
                  alertType |-> "verification_mismatch",
                  severity |-> "medium",
                  description |-> <<"no measurable outcomes", 50>>,
                  timestamp |-> toISOString(now),
                  action |-> "investigate"]>>
          ELSE <<>>)
      \o (IF Len(userTokens) > 3 /\ Cardinality(orgs) = 1
          THEN <<[alertId |-> generateAlertId(now, rnds[3]),
                  userId |-> userId,
                  alertType |-> "suspicious_pattern",
                  severity |-> "high",
                  description |-> <<"single organization", 1>>,
                  timestamp |-> toISOString(now),
                  action |-> "investigate"]>>
          ELSE <<>>)

\* detectSuspiciousPatterns; rnds[1..3] are the random suffixes of the three
\* possible alert ids.  Dates are compared as strings.
detectSuspiciousPatterns(userId, userTokens, now, rnds) ==
  LET oneWeekAgo == toISOString(now - WeekMs)
      recentTokens == SelectSeq(userTokens, LAMBDA tk :
                        StrLess(oneWeekAgo, tk.issuanceDate) /\ tk.status = "active")
      noOutcomeTokens == SelectSeq(userTokens, LAMBDA tk :
                           NoMeasurableOutcomes(tk) /\ tk.status = "active")
      orgs == {userTokens[i].organization : i \in 1..Len(userTokens)}
  IN  (IF Len(recentTokens) > 2
       THEN <<[alertId |-> generateAlertId(now, rnds[1]),
               userId |-> userId,
               alertType |-> "suspicious_pattern",
               severity |-> "medium",
               description |-> <<"rapid acquisition", Len(recentTokens)>>,
               timestamp |-> toISOString(now),
               action |-> "investigate"]>>
       ELSE <<>>)
      \o (IF 2 * Len(noOutcomeTokens) > Len(userTokens)
          THEN <<[alertId |-> generateAlertId(now, rnds[2]),
                  userId |-> userId,
                  alertType |-> "verification_mismatch",
                  severity |-> "medium",
                  description |-> <<"no measurable outcomes", 50>>,
                  timestamp |-> toISOString(now),
                  action |-> "investigate"]>>
          ELSE <<>>)
      \o (IF Len(userTokens) > 3 /\ Cardinality(orgs) = 1
          THEN <<[alertId |-> generateAlertId(now, rnds[3]),
                  userId |-> userId,
                  alertType |-> "suspicious_pattern",
                  severity |-> "high",
                  description |-> <<"single organization", 1>>,
                  timestamp |-> toISOString(now),
                  action |-> "investigate"]>>
          ELSE <<>>)

\* ------------------------------------------------------- JavaScript numbers
\* The numbers of impactEffectivenessModel.ts: a finite value kept as an
\* exact fraction in lowest terms, NaN, Infinity or -Infinity.
RECURSIVE Gcd(_, _)
Gcd(a, b) == IF b = 0 THEN a ELSE Gcd(b, a % b)

Magnitude(n) == IF n < 0 THEN 0 - n ELSE n

\* The finite number num / den, den > 0.
Fin(num, den) ==
  LET g == Gcd(Magnitude(num), den)
  IN  [kind |-> "finite", num |-> num \div g, den |-> den \div g]

NaN == [kind |-> "NaN", num |-> 0, den |-> 1]
PosInfinity == [kind |-> "Infinity", num |-> 1, den |-> 1]
NegInfinity == [kind |-> "-Infinity", num |-> 0 - 1, den |-> 1]

IsFinite(x) == x.kind = "finite"

\* x + y
NumAdd(x, y) ==
  CASE x.kind = "NaN" \/ y.kind = "NaN" -> NaN
    [] IsFinite(x) /\ IsFinite(y) -> Fin(x.num * y.den + y.num * x.den, x.den * y.den)
    [] IsFinite(x) -> y
    [] IsFinite(y) -> x
    [] OTHER -> IF x.kind = y.kind THEN x ELSE NaN

\* x * (p / q) for a positive constant p / q
NumScale(x, p, q) ==
  IF IsFinite(x) THEN Fin(x.num * p, x.den * q) ELSE x

\* a / b for integers a and b: division by zero gives NaN or an infinity.
NumDiv(a, b) ==
  CASE b > 0 -> Fin(a, b)
    [] b < 0 -> Fin(0 - a, 0 - b)
    [] a > 0 -> PosInfinity
    [] a < 0 -> NegInfinity
    [] OTHER -> NaN

\* x < y; false when either is NaN.
NumLess(x, y) ==
  CASE x.kind = "NaN" \/ y.kind = "NaN" -> FALSE
    [] IsFinite(x) /\ IsFinite(y) -> x.num * y.den < y.num * x.den
    [] x.kind = y.kind -> FALSE
    [] OTHER -> x.kind = "-Infinity" \/ y.kind = "Infinity"

\* Math.min(x, y)
MathMin(x, y) ==
  CASE x.kind = "NaN" \/ y.kind = "NaN" -> NaN
    [] NumLess(y, x) -> y
    [] OTHER -> x

\* Math.round(x): the nearest integer, halves upwards.
MathRound(x) ==
  IF IsFinite(x) THEN Fin((2 * x.num + x.den) \div (2 * x.den), 1) ELSE x

\* Math.round(x * 1000) / 1000
RoundThousandths(x) ==
  IF IsFinite(x) THEN Fin(MathRound(NumScale(x, 1000, 1)).num, 1000) ELSE x

\* ------------------------------------------------ impact effectiveness model
\* missionData is [id, description |-> [length], teamSize, budget, duration,
\* measurableOutcomes, userResponsibilityLevel]; an optional number left out
\* is 0 (the code reads it with `|| default`, which treats the two alike) and
\* a responsibility level left out is "undefined".

\* calculateScopeScore
calculateScopeScore(missionData) ==
  LET teamSize == IF missionData.teamSize = 0 THEN 1 ELSE missionData.teamSize
      budget == missionData.budget
      duration == IF missionData.duration = 0 THEN 1 ELSE missionData.duration
      score == 30
        + (CASE teamSize >= 50 -> 30
             [] teamSize >= 20 /\ teamSize < 50 -> 25
             [] teamSize >= 10 /\ teamSize < 20 -> 20
             [] teamSize >= 5 /\ teamSize < 10 -> 15
             [] teamSize > 1 /\ teamSize < 5 -> 10
             [] OTHER -> 0)
        + (CASE budget >= 100000 -> 20
             [] budget >= 50000 /\ budget < 100000 -> 15
             [] budget >= 10000 /\ budget < 50000 -> 10
             [] budget >= 1000 /\ budget < 10000 -> 5
             [] OTHER -> 0)
        + (CASE duration >= 26 -> 10
             [] duration >= 12 /\ duration < 26 -> 8
             [] duration >= 4 /\ duration < 12 -> 5
             [] OTHER -> 0)
  IN  IF score > 100 THEN 100 ELSE score

\* calculateComplexityScore
calculateComplexityScore(missionData) ==
  LET descriptionLength == missionData.description.length
      score == 20
        + (CASE missionData.userResponsibilityLevel = "initiative" -> 40
             [] missionData.userResponsibilityLevel = "project" -> 30
             [] missionData.userResponsibilityLevel = "task" -> 15
             [] OTHER -> 0)
        + (CASE descriptionLength > 500 -> 15
             [] descriptionLength > 200 /\ descriptionLength <= 500 -> 10
             [] descriptionLength > 100 /\ descriptionLength <= 200 -> 5
             [] OTHER -> 0)
        + 10
  IN  IF score > 100 THEN 100 ELSE score

\* calculateAutonomyScore
calculateAutonomyScore(missionData) ==
  LET teamSize == IF missionData.teamSize = 0 THEN 1 ELSE missionData.teamSize
      score == 20
        + (CASE missionData.userResponsibilityLevel = "initiative" -> 50
             [] missionData.userResponsibilityLevel = "project" -> 35
             [] missionData.userResponsibilityLevel = "task" -> 15
             [] OTHER -> 0)
        + (CASE teamSize >= 10 -> 15
             [] teamSize >= 5 /\ teamSize < 10 -> 10
             [] teamSize > 1 /\ teamSize < 5 -> 5
             [] OTHER -> 0)
  IN  IF score > 100 THEN 100 ELSE score

\* The sum of f[1..n], left to right from 0.
RECURSIVE NumSum(_, _)
NumSum(f, n) == IF n = 0 THEN Fin(0, 1) ELSE NumAdd(NumSum(f, n - 1), f[n])

\* calculateOutcomeScore
calculateOutcomeScore(measurableOutcomes) ==
  LET n == Len(measurableOutcomes)
      achievementRate == [i \in 1..n |->
        MathMin(Fin(1, 1), NumDiv(measurableOutcomes[i].actualValue,
                                  measurableOutcomes[i].targetValue))]
      totalAchievementRate == NumSum(achievementRate, n)
      verifiedCount == Cardinality({i \in 1..n : measurableOutcomes[i].verified})
      avgAchievementRate == NumScale(totalAchievementRate, 1, n)
      verificationBonus == Fin(verifiedCount * 20, n)
  IN  IF n = 0 THEN Fin(30, 1)
      ELSE MathRound(NumAdd(NumScale(avgAchievementRate, 80, 1), verificationBonus))

\* authorityBonus[verification.verifierRole] || 5
authorityBonus(verifierRole) ==
  CASE verifierRole = "Executive Director" -> 15
    [] verifierRole = "Manager" -> 10
    [] verifierRole = "Coordinator" -> 5
    [] verifierRole = "Peer" -> 2
    [] OTHER -> 5

\* calculateOrganizationVerificationScore; verificationNotes is [length],
\* 0 when the notes are left out.
calculateOrganizationVerificationScore(verification) ==
  LET score == IF verification.organizationVerified
               THEN 80 + (IF verification.verificationNotes.length > 50 THEN 15 ELSE 0)
                       + authorityBonus(verification.verifierRole)
               ELSE 20
  IN  IF score > 100 THEN 100 ELSE score

\* calculatePeerEvaluationScore; peerFeedback is the list of the scores.
calculatePeerEvaluationScore(peerFeedback) ==
  LET n == Len(peerFeedback)
      avgScore == NumScale(NumSum([i \in 1..n |-> Fin(peerFeedback[i].score, 1)], n), 1, n)
      normalizedScore == IF NumLess(Fin(5, 1), avgScore) THEN avgScore
                         ELSE NumScale(avgScore, 20, 1)
      feedbackBonus == IF n * 2 > 20 THEN 20 ELSE n * 2
  IN  IF n = 0 THEN Fin(40, 1)
      ELSE MathMin(Fin(100, 1), NumAdd(normalizedScore, Fin(feedbackBonus, 1)))

\* calculateCredibilityMultiplier
calculateCredibilityMultiplier(verification, peerFeedbackCount) ==
  LET multiplier == IF verification.organizationVerified THEN Fin(1, 1) ELSE Fin(1, 2)
  IN  CASE peerFeedbackCount >= 3 ->
             MathMin(Fin(12, 10), NumAdd(multiplier, Fin(1, 10)))
        [] peerFeedbackCount >= 1 /\ peerFeedbackCount < 3 ->
             MathMin(Fin(11, 10), NumAdd(multiplier, Fin(5, 100)))
        [] OTHER -> multiplier

\* calculateImpactEffectivenessScore.  The tokenWeight field of the result
\* is left out: it is the composite score divided by 100 and rounded to
\* thousandths in binary floating point, which no fraction reproduces at the
\* half thousandths, and nothing below reads it.
calculateImpactEffectivenessScore(missionData, verification, peerFeedback) ==
  LET scopeScore == Fin(calculateScopeScore(missionData), 1)
      complexityScore == Fin(calculateComplexityScore(missionData), 1)
      autonomyScore == Fin(calculateAutonomyScore(missionData), 1)
      outcomeScore == calculateOutcomeScore(missionData.measurableOutcomes)
      orgVerificationScore == Fin(calculateOrganizationVerificationScore(verification), 1)
      peerEvaluationScore == calculatePeerEvaluationScore(peerFeedback)
      compositeScore ==
        NumAdd(NumAdd(NumAdd(NumAdd(NumAdd(
          NumScale(scopeScore, 15, 100),
          NumScale(complexityScore, 20, 100)),
          NumScale(autonomyScore, 15, 100)),
          NumScale(outcomeScore, 25, 100)),
          NumScale(orgVerificationScore, 15, 100)),
          NumScale(peerEvaluationScore, 10, 100))
      credibilityMultiplier ==
        calculateCredibilityMultiplier(verification, Len(peerFeedback))
  IN  [missionId |-> missionData.id,
       scopeScore |-> MathRound(scopeScore),
       complexityScore |-> MathRound(complexityScore),
       autonomyScore |-> MathRound(autonomyScore),
       outcomeScore |-> MathRound(outcomeScore),
       organizationVerificationScore |-> MathRound(orgVerificationScore),
       peerEvaluationScore |-> MathRound(peerEvaluationScore),
       compositeImpactSignalStrength |-> MathRound(compositeScore),
       credibilityMultiplier |-> RoundThousandths(credibilityMultiplier),
       breakdown |-> [scope |-> scopeScore, complexity |-> complexityScore,
                      autonomy |-> autonomyScore, outcome |-> outcomeScore,
                      orgVerification |-> orgVerificationScore,
                      peerEvaluation |-> peerEvaluationScore]]

\* zScore > 3 for mission i, where scores are the compositeImpactSignalStrength
\* values (integers when finite, being results of Math.round), avgScore their
\* mean and stdDev their population standard deviation, `stdDev || 1` in the
\* divisor.  With total the sum of the n scores, d(j) = n * scores[j] - total
\* and q the sum of the d(j)^2: stdDev = sqrt(q / n^3), so for q > 0 the test
\* is d(i)^2 * n > 9 * q, and for q = 0 it is |scores[i] - avgScore| > 3.
\* With a NaN score avgScore is NaN and no zScore exceeds 3; with an infinite
\* score avgScore is infinite, stdDev is NaN and the divisor 1, so zScore is
\* Infinity for the finite scores and NaN for the others.
IsOutlier(scores, i) ==
  LET n == Len(scores)
      kinds == {scores[j].kind : j \in 1..n}
      total == NumSum(scores, n).num
      d(j) == n * scores[j].num - total
      square == [j \in 1..n |-> Fin(d(j) * d(j), 1)]
      q == NumSum(square, n).num
  IN  CASE kinds \subseteq {"finite"} ->
             IF q = 0 THEN Magnitude(d(i)) > 3 * n ELSE d(i) * d(i) * n > 9 * q
        [] "NaN" \in kinds \/ {"Infinity", "-Infinity"} \subseteq kinds -> FALSE
        [] OTHER -> IsFinite(scores[i])

\* outcome.actualValue > outcome.targetValue * 2
IsInflated(outcome) == outcome.actualValue > outcome.targetValue * 2

\* compositeImpactSignalStrength > 80 && organizationVerificationScore < 30
\* with the threshold at 80 included.
IsUnverifiedHighImpactFrom80(score) ==
  /\ ~NumLess(score.compositeImpactSignalStrength, Fin(80, 1))
  /\ score.compositeImpactSignalStrength.kind # "NaN"
  /\ NumLess(score.organizationVerificationScore, Fin(30, 1))

\* compositeImpactSignalStrength > 80 && organizationVerificationScore < 30
IsUnverifiedHighImpact(score) ==
  /\ NumLess(Fin(80, 1), score.compositeImpactSignalStrength)
  /\ NumLess(score.organizationVerificationScore, Fin(30, 1))

\* The items the first loop pushes for missions i..Len(userMissions).
RECURSIVE FirstLoop(_, _, _)
FirstLoop(userMissions, scores, i) ==
  IF i > Len(userMissions) THEN <<>>
  ELSE LET mission == userMissions[i]
           inflated == {k \in 1..Len(mission.outcomes) : IsInflated(mission.outcomes[k])}
       IN  (IF IsOutlier(scores, i)
            THEN <<[text |-> "Outlier score detected", missionId |-> mission.score.missionId,
                    risk |-> 15]>>
            ELSE <<>>)
           \o [k \in 1..Cardinality(inflated) |->
                 [text |-> "Potential outcome inflation", missionId |-> mission.score.missionId,
                  risk |-> 10]]
           \o FirstLoop(userMissions, scores, i + 1)

\* The items the second loop pushes for missions i..Len(userMissions).
RECURSIVE SecondLoop(_, _)
SecondLoop(userMissions, i) ==
  IF i > Len(userMissions) THEN <<>>
  ELSE (IF IsUnverifiedHighImpact(userMissions[i].score)
        THEN <<[text |-> "High impact claim without verification",
                missionId |-> userMissions[i].score.missionId, risk |-> 20]>>
        ELSE <<>>)
       \o SecondLoop(userMissions, i + 1)

RECURSIVE RiskSum(_, _)
RiskSum(items, n) == IF n = 0 THEN 0 ELSE RiskSum(items, n - 1) + items[n].risk

\* riskScore > 20 with the threshold at 20 included.
isAnomalousFrom20(riskScore) == riskScore >= 20

\* riskScore > 20
isAnomalous(riskScore) == riskScore > 20

\* detectAnomalousImpactClaims; a flagged item is kept as its text, the
\* mission id the text ends with and the risk added along with it.
detectAnomalousImpactClaims(userMissions) ==
  LET scores == [i \in 1..Len(userMissions) |->
                   userMissions[i].score.compositeImpactSignalStrength]
      items == FirstLoop(userMissions, scores, 1) \o SecondLoop(userMissions, 1)
      riskScore == RiskSum(items, Len(items))
  IN  [isAnomalous |-> isAnomalous(riskScore),
       riskScore |-> IF riskScore > 100 THEN 100 ELSE riskScore,
       flaggedItems |-> [k \in 1..Len(items) |->
                           [text |-> items[k].text, missionId |-> items[k].missionId]]]

\* -------------------------------------------------------------------- state
VARIABLES
  clock,     \* Date.now(), in milliseconds
  tokens,    \* the token objects the caller holds
  ledger,    \* the LedgerEntry[] the caller keeps and passes to the queries
  last,      \* the last call: [op, arg, error, out]
  pc,        \* per appender: "idle", "read" or "built"
  seen,      \* per appender: the tail hash it read
  built,     \* per appender: the entry it built
  tampered   \* 0, or the (1-based) position of the entry changed in storage

vars == <<clock, tokens, ledger, last, pc, seen, built, tampered>>

Procs == {1, 2}

\* The earliest clock value with a whole week behind it inside the range
\* toISOString covers.
ClockStart == WeekMs

\* What callers ask for.  The second request has a strength above 100, the
\* third an empty organization signature; the first and the third pass
\* metadata (Record<string, any>).
IssueRequests ==
  { [userId |-> "u1", signature |-> "sigA", metadata |-> << <<"source", Codes("web")>> >>,
     mission |-> [id |-> "m1", title |-> "Cleanup", organization |-> "orgA",
                  skillsMastered |-> <<"s1">>, impactSignalStrength |-> 82]],
    [userId |-> "u2", signature |-> "sigA", metadata |-> <<>>,
     mission |-> [id |-> "m1", title |-> "Cleanup", organization |-> "orgA",
                  skillsMastered |-> <<>>, impactSignalStrength |-> 101]],
    [userId |-> "u1", signature |-> "",
     metadata |-> << <<"revocationReason", Codes("expired")>> >>,
     mission |-> [id |-> "m2", title |-> "Cleanup", organization |-> "orgB",
                  skillsMastered |-> <<"s1">>, impactSignalStrength |-> 50]] }

Users == {r.userId : r \in IssueRequests}
Missions == {r.mission.id : r \in IssueRequests}

\* Math.random().toString(36).slice(2, 9): the suffixes drawn for block ids,
\* and the one drawn for alert ids.
RandomSuffixes == {"k3x9q2a", "p0m4z7b"}
AlertSuffix == "p0m4z7b"
BlockSuffix == "k3x9q2a"

\* The organizationSignatures argument callers give recordLedgerEntry: the
\* token's organization signature when it has one, the default [] otherwise.
CallerSignatures(token) ==
  IF token.organizationSignature = "" THEN <<>>
  ELSE <<[organizationId |-> token.organization,
          signature |-> token.organizationSignature]>>

GenesisHash == Codes("genesis")

NoCall == [op |-> "none", arg |-> <<>>, error |-> "none", out |-> <<>>]

Init ==
  /\ clock = ClockStart
  /\ tokens = {}
  /\ ledger = <<>>
  /\ last = NoCall
  /\ pc = [p \in Procs |-> "idle"]
  /\ seen = [p \in Procs |-> GenesisHash]
  /\ built = [p \in Procs |-> <<>>]
  /\ tampered = 0

\* Time passes.
Tick ==
  /\ clock < ClockStart + MaxClock
  /\ clock' = clock + 1
  /\ UNCHANGED <<tokens, ledger, last, pc, seen, built, tampered>>

\* A call of issueVerifiedImpactToken; the caller keeps the token.
Issue(r) ==
  /\ Cardinality(tokens) < MaxTokens
  /\ LET token == issueVerifiedImpactToken(r.userId, r.mission, r.signature, r.metadata, clock)
     IN  /\ tokens' = tokens \cup {token}
         /\ last' = [op |-> "issue", arg |-> r, error |-> "none", out |-> token]
  /\ UNCHANGED <<clock, ledger, pc, seen, built, tampered>>

\* revokeToken writing status, metadata and verificationHash to its
\* argument instead of to a copy.
revokeTokenInPlace(token, reason, revokerSignature, now) ==
  revokeToken(token, reason, revokerSignature, now)

\* The object passed to revokeToken as it is when the call returns:
\* revokedToken is a spread copy, so the argument is not written to.
revokeTokenArgument(token, reason, revokerSignature, now) == token

\* A call of revokeToken on a token the caller holds.  Ledger entries hold
\* the token object they were recorded with, so they see whatever the call
\* does to its argument.
Revoke(token, reason, revokerSignature) ==
  /\ LET after == revokeTokenArgument(token, reason, revokerSignature, clock)
         revoked == revokeToken(token, reason, revokerSignature, clock)
     IN  /\ tokens' = (tokens \ {token}) \cup {after, revoked}
         /\ ledger' = [i \in 1..Len(ledger) |->
                         IF ledger[i].token = token
                         THEN [ledger[i] EXCEPT !.token = after] ELSE ledger[i]]
         /\ last' = [op |-> "revoke", arg |-> token, error |-> "none", out |-> revoked]
  /\ UNCHANGED <<clock, pc, seen, built, tampered>>

\* The currentHash of the last entry; callers use recordLedgerEntry's
\* default for the first entry.
TailHash(entries) ==
  IF entries = <<>> THEN GenesisHash ELSE entries[Len(entries)].currentHash

\* A caller appends in one go: recordLedgerEntry with the tail's
\* currentHash, then push.
AppendEntry(token, rnd) ==
  /\ Len(ledger) < MaxLedger
  /\ LET entry == recordLedgerEntry(token, TailHash(ledger), CallerSignatures(token),
                                    clock, rnd)
     IN  /\ ledger' = Append(ledger, entry)
         /\ last' = [op |-> "append", arg |-> token, error |-> "none", out |-> entry]
  /\ UNCHANGED <<clock, tokens, pc, seen, built, tampered>>

\* A caller leaves previousBlockHash out: the parameter's default applies.
AppendDefault(token, rnd) ==
  /\ Len(ledger) < MaxLedger
  /\ LET entry == recordLedgerEntry(token, GenesisHash, CallerSignatures(token), clock, rnd)
     IN  /\ ledger' = Append(ledger, entry)
         /\ last' = [op |-> "append", arg |-> token, error |-> "none", out |-> entry]
  /\ UNCHANGED <<clock, tokens, pc, seen, built, tampered>>

VerifyToken(token, i) ==
  /\ last' = [op |-> "verifyToken", arg |-> token, error |-> "none",
              out |-> verifyTokenAuthenticity(token, ledger[i])]
  /\ UNCHANGED <<clock, tokens, ledger, pc, seen, built, tampered>>

VerifyLedger ==
  /\ last' = [op |-> "verifyLedger", arg |-> <<>>, error |-> "none",
              out |-> verifyLedgerIntegrity(ledger)]
  /\ UNCHANGED <<clock, tokens, ledger, pc, seen, built, tampered>>

History(userId) ==
  /\ last' = [op |-> "history", arg |-> userId, error |-> "none",
              out |-> getUserTokenHistory(userId, ledger)]
  /\ UNCHANGED <<clock, tokens, ledger, pc, seen, built, tampered>>

DuplicateCheck(userId, missionId, rnd) ==
  /\ last' = [op |-> "duplicate", arg |-> <<userId, missionId>>, error |-> "none",
              out |-> detectDuplicateClaims(userId, missionId,
                        getUserTokenHistory(userId, ledger), clock, rnd)]
  /\ UNCHANGED <<clock, tokens, ledger, pc, seen, built, tampered>>

SuspiciousCheck(userId, rnd) ==
  /\ last' = [op |-> "suspicious", arg |-> userId, error |-> "none",
              out |-> detectSuspiciousPatterns(userId,
                        getUserTokenHistory(userId, ledger), clock, <<rnd, rnd, rnd>>)]
  /\ UNCHANGED <<clock, tokens, ledger, pc, seen, built, tampered>>

Queries ==
  \/ \E token \in tokens, i \in 1..Len(ledger) : VerifyToken(token, i)
  \/ VerifyLedger
  \/ \E userId \in Users : History(userId)
  \/ \E userId \in Users, missionId \in Missions :
       DuplicateCheck(userId, missionId, AlertSuffix)
  \/ \E userId \in Users : SuspiciousCheck(userId, AlertSuffix)

Next ==
  \/ Tick
  \/ \E r \in IssueRequests : Issue(r)
  \/ /\ Cardinality(tokens) < MaxTokens
     /\ \E token \in tokens : Revoke(token, "fraud", "sigR")
  \/ \E token \in tokens : AppendEntry(token, BlockSuffix)
  \/ Queries

Spec == Init /\ [][Next]_vars

\* ------------------------------------------------------ token life cycle
\* Issue, revoke and record, without the queries.
NextLife ==
  \/ Tick
  \/ \E r \in IssueRequests : Issue(r)
  \/ /\ Cardinality(tokens) < MaxTokens
     /\ \E token \in tokens : Revoke(token, "fraud", "sigR")
  \/ \E token \in tokens : AppendEntry(token, BlockSuffix)

SpecLife == Init /\ [][NextLife]_vars

\* ------------------------------------------------- fraud checks on token lists
\* The token arrays a caller can pass: the tokens of any subset of the ones
\* it holds, in any order.
Arrangements(S) ==
  {s \in [1..Cardinality(S) -> S] : \A i, j \in 1..Cardinality(S) : i # j => s[i] # s[j]}

TokenLists == UNION {Arrangements(S) : S \in SUBSET tokens}

\* VerifiedImpactToken.status: 'active' | 'revoked' | 'expired'.  Nothing in
\* the module sets 'expired'; a caller's list may hold such a token.
Expire(existingTokens, k) ==
  [i \in 1..Len(existingTokens) |->
     IF i = k THEN [existingTokens[i] EXCEPT !.status = "expired"] ELSE existingTokens[i]]

\* A call of detectDuplicateClaims on a token list.
DuplicateProbe(userId, missionId, existingTokens) ==
  /\ last' = [op |-> "duplicateOf", arg |-> <<userId, missionId, existingTokens>>,
              error |-> "none",
              out |-> detectDuplicateClaims(userId, missionId, existingTokens,
                                            clock, AlertSuffix)]
  /\ UNCHANGED <<clock, tokens, ledger, pc, seen, built, tampered>>

NextFraud ==
  \/ Tick
  \/ \E r \in IssueRequests : Issue(r)
  \/ /\ Cardinality(tokens) < MaxTokens
     /\ \E token \in tokens : Revoke(token, "fraud", "sigR")
  \/ \E userId \in Users, missionId \in Missions, list \in TokenLists :
       \E k \in 0..Len(list) : DuplicateProbe(userId, missionId, Expire(list, k))

SpecFraud == Init /\ [][NextFraud]_vars

\* ------------------------------------------- objects built in another order
\* The same properties inserted in another order: order 0 is the reverse,
\* order k > 0 starts k places further on.
Orders == 0..3

Reorder(pairs, order) ==
  LET n == Len(pairs)
  IN  [i \in 1..n |-> IF order = 0 THEN pairs[n + 1 - i]
                                    ELSE pairs[((i - 1 + order) % n) + 1]]

\* An object with its properties, and those of its nested token, reordered.
ReorderObj(obj, order) ==
  JObj(Reorder([i \in 1..Len(obj.v) |->
                  IF obj.v[i][1] = "token"
                  THEN <<"token", JObj(Reorder(obj.v[i][2].v, order))>>
                  ELSE obj.v[i]], order))

\* computeTokenHash on a token and on the same token built in another order.
RehashToken(token, order) ==
  /\ last' = [op |-> "rehash", arg |-> [token |-> token, order |-> order],
              error |-> "none",
              out |-> <<hashString(StringifySorted(TokenObj(token))),
                        hashString(StringifySorted(ReorderObj(TokenObj(token), order)))>>]
  /\ UNCHANGED <<clock, tokens, ledger, pc, seen, built, tampered>>

\* computeBlockHash on the block recordLedgerEntry builds for a token and on
\* the same block built in another order.
RehashBlock(token, order) ==
  /\ LET block == recordLedgerEntry(token, GenesisHash, CallerSignatures(token),
                                    clock, BlockSuffix)
     IN  last' = [op |-> "rehash", arg |-> [block |-> block, order |-> order],
                  error |-> "none",
                  out |-> <<hashString(StringifySorted(BlockObj(block))),
                            hashString(StringifySorted(ReorderObj(BlockObj(block), order)))>>]
  /\ UNCHANGED <<clock, tokens, ledger, pc, seen, built, tampered>>

NextOrder ==
  \/ Tick
  \/ \E r \in IssueRequests : Issue(r)
  \/ /\ Cardinality(tokens) < MaxTokens
     /\ \E token \in tokens : Revoke(token, "fraud", "sigR")
  \/ \E token \in tokens, order \in Orders : RehashToken(token, order)
  \/ \E token \in tokens, order \in Orders : RehashBlock(token, order)

SpecOrder == Init /\ [][NextOrder]_vars

\* ------------------------------------------------------ digests of strings
\* The strings of two characters over 'A', 'B' and 'a'.
ShortStrings == {<<c1, c2>> : c1, c2 \in {65, 66, 97}}

\* hashString on two strings.
HashPair(a, b) ==
  /\ last' = [op |-> "hash", arg |-> <<a, b>>, error |-> "none",
              out |-> <<hashString(a), hashString(b)>>]
  /\ UNCHANGED <<clock, tokens, ledger, pc, seen, built, tampered>>

NextHash ==
  \/ Tick
  \/ \E a, b \in ShortStrings : HashPair(a, b)

SpecHash == Init /\ [][NextHash]_vars

\* ------------------------------------------------ ledgers of mixed actions
\* LedgerEntry.action: 'issue' | 'verify' | 'revoke' | 'dispute'.
\* recordLedgerEntry builds 'issue' entries only; an entry with another
\* action is one whose action field the caller set.
LedgerActions == {"issue", "verify", "revoke", "dispute"}

AppendAs(token, action, rnd) ==
  /\ Len(ledger) < MaxLedger
  /\ action # "issue"
  /\ LET entry == [recordLedgerEntry(token, TailHash(ledger), CallerSignatures(token),
                                     clock, rnd) EXCEPT !.action = action]
     IN  /\ ledger' = Append(ledger, entry)
         /\ last' = [op |-> "append", arg |-> token, error |-> "none", out |-> entry]
  /\ UNCHANGED <<clock, tokens, pc, seen, built, tampered>>

NextHistory ==
  \/ Tick
  \/ \E r \in IssueRequests : Issue(r)
  \/ \E token \in tokens : AppendEntry(token, BlockSuffix)
  \/ \E token \in tokens, action \in LedgerActions : AppendAs(token, action, BlockSuffix)
  \/ \E userId \in Users : History(userId)

SpecHistory == Init /\ [][NextHistory]_vars

\* ------------------------------------------------- token lists over weeks
\* detectSuspiciousPatterns on the token lists a caller can hold at a time
\* now: tokens issued at the times of IssueTimes, as issued or revoked on
\* the spot, at most MaxList of them, none issued after now.
IssueTimes == {0, 1, WeekMs + 2}

\* new Date(token.issuanceDate).getTime(), for the times used here.
IssuedAtOf(token) ==
  CHOOSE at \in IssueTimes : toISOString(at) = token.issuanceDate

Nows == {WeekMs, 2 * WeekMs}

Candidates ==
  LET issued == {issueVerifiedImpactToken(r.userId, r.mission, r.signature, r.metadata, at) :
                   r \in IssueRequests, at \in IssueTimes}
  IN  issued \cup {revokeToken(token, "fraud", "sigR", IssuedAtOf(token)) : token \in issued}

InitVelocity ==
  /\ clock \in Nows
  /\ tokens \in {S \in SUBSET Candidates :
                   /\ Cardinality(S) <= MaxList
                   /\ \A token \in S : IssuedAtOf(token) <= clock}
  /\ ledger = <<>>
  /\ last = NoCall
  /\ pc = [p \in Procs |-> "idle"]
  /\ seen = [p \in Procs |-> GenesisHash]
  /\ built = [p \in Procs |-> <<>>]
  /\ tampered = 0

VelocityProbe(userId) ==
  /\ LET userTokens == CHOOSE list \in Arrangements(tokens) : TRUE
     IN  last' = [op |-> "velocity", arg |-> [userId |-> userId, userTokens |-> userTokens],
                  error |-> "none",
                  out |-> detectSuspiciousPatterns(userId, userTokens, clock,
                            <<AlertSuffix, AlertSuffix, AlertSuffix>>)]
  /\ UNCHANGED <<clock, tokens, ledger, pc, seen, built, tampered>>

NextVelocity == \E userId \in Users : VelocityProbe(userId)

SpecVelocity == InitVelocity /\ [][NextVelocity]_vars

\* ------------------------------------------------ organization concentration
\* detectSuspiciousPatterns applied to token lists long enough for its third
\* check: at most MaxOrgTokens tokens, none issued after now.
InitConcentration ==
  /\ clock \in Nows
  /\ tokens \in {S \in SUBSET Candidates :
                   /\ Cardinality(S) <= MaxOrgTokens
                   /\ \A token \in S : IssuedAtOf(token) <= clock}
  /\ ledger = <<>>
  /\ last = NoCall
  /\ pc = [p \in Procs |-> "idle"]
  /\ seen = [p \in Procs |-> GenesisHash]
  /\ built = [p \in Procs |-> <<>>]
  /\ tampered = 0

SpecConcentration == InitConcentration /\ [][NextVelocity]_vars

\* ------------------------------------------------------------- token ids
\* Issuances for users and missions whose ids are longer than six characters,
\* next to the short ones.
LongUsers == {"volunteer-1", "volunteer-2"}
LongMissions == {"cleanup-north", "cleanup-south"}

LongRequests ==
  { [userId |-> userId, signature |-> "sigA", metadata |-> <<>>,
     mission |-> [id |-> missionId, title |-> "Cleanup", organization |-> "orgA",
                  skillsMastered |-> <<>>, impactSignalStrength |-> 82]] :
      userId \in Users \cup LongUsers, missionId \in Missions \cup LongMissions }

NextTokenId ==
  \/ Tick
  \/ \E r \in LongRequests : Issue(r)

SpecTokenId == Init /\ [][NextTokenId]_vars

\* ------------------------------------------------------ authenticity checks
\* verifyTokenAuthenticity applied to a held token, as issued or with its
\* nonTransferable flag cleared, and an entry recorded for it with the
\* caller's signatures or with the default (empty) signature list.
VerifyProbe(token, nonTransferable, signed) ==
  /\ LET presented == [token EXCEPT !.nonTransferable = nonTransferable]
         entry == recordLedgerEntry(presented, GenesisHash,
                    IF signed THEN CallerSignatures(presented) ELSE <<>>,
                    clock, BlockSuffix)
     IN  last' = [op |-> "verifyEntry",
                  arg |-> [token |-> presented, ledgerEntry |-> entry],
                  error |-> "none",
                  out |-> verifyTokenAuthenticity(presented, entry)]
  /\ UNCHANGED <<clock, tokens, ledger, pc, seen, built, tampered>>

NextVerify ==
  \/ Tick
  \/ \E r \in IssueRequests : Issue(r)
  \/ /\ Cardinality(tokens) < MaxTokens
     /\ \E token \in tokens : Revoke(token, "fraud", "sigR")
  \/ \E token \in tokens, nonTransferable, signed \in BOOLEAN :
       VerifyProbe(token, nonTransferable, signed)

SpecVerify == Init /\ [][NextVerify]_vars

\* ------------------------------------------------------ repeated revocation
\* Holders revoke any token they hold, revoked snapshots included.
NextRevoke ==
  \/ Tick
  \/ \E r \in IssueRequests : Issue(r)
  \/ /\ Cardinality(tokens) <= MaxTokens
     /\ \E token \in tokens : Revoke(token, "fraud", "sigR")

SpecRevoke == Init /\ [][NextRevoke]_vars

\* ---------------------------------------------- callers that omit the link
\* Callers may pass the tail's hash or leave previousBlockHash out.
NextOpen ==
  \/ Tick
  \/ \E r \in IssueRequests : Issue(r)
  \/ \E token \in tokens : AppendEntry(token, BlockSuffix)
  \/ \E token \in tokens : AppendDefault(token, BlockSuffix)

SpecOpen == Init /\ [][NextOpen]_vars

\* ------------------------------------------------------ concurrent appenders
\* An appender reads the tail hash, builds its entry with recordLedgerEntry
\* and pushes it, in three steps; nothing in the code serializes appenders.
Pending == Cardinality({p \in Procs : pc[p] # "idle"})

ReadTail(p) ==
  /\ pc[p] = "idle"
  /\ Len(ledger) + Pending < MaxLedger
  /\ seen' = [seen EXCEPT ![p] = TailHash(ledger)]
  /\ pc' = [pc EXCEPT ![p] = "read"]
  /\ UNCHANGED <<clock, tokens, ledger, last, built, tampered>>

Build(p, token, rnd) ==
  /\ pc[p] = "read"
  /\ built' = [built EXCEPT ![p] =
                 recordLedgerEntry(token, seen[p], CallerSignatures(token), clock, rnd)]
  /\ pc' = [pc EXCEPT ![p] = "built"]
  /\ UNCHANGED <<clock, tokens, ledger, last, seen, tampered>>

Push(p) ==
  /\ pc[p] = "built"
  /\ ledger' = Append(ledger, built[p])
  /\ last' = [op |-> "append", arg |-> built[p].token, error |-> "none", out |-> built[p]]
  /\ pc' = [pc EXCEPT ![p] = "idle"]
  /\ built' = [built EXCEPT ![p] = <<>>]
  /\ seen' = [seen EXCEPT ![p] = GenesisHash]
  /\ UNCHANGED <<clock, tokens, tampered>>

NextConc ==
  \/ Tick
  \/ \E r \in IssueRequests : Issue(r)
  \/ \E p \in Procs : ReadTail(p)
  \/ \E p \in Procs, token \in tokens, rnd \in RandomSuffixes : Build(p, token, rnd)
  \/ \E p \in Procs : Push(p)

SpecConc == Init /\ [][NextConc]_vars

\* ------------------------------------------------------ a change in storage
\* Someone with access to the stored ledger changes one field of the token
\* snapshot of one entry, once.
TamperFields == {"impactSignalStrength", "missionId", "status", "verificationHash", "userId"}

TamperField(token, field) ==
  CASE field = "impactSignalStrength" ->
         [token EXCEPT !.impactSignalStrength = @ + 1]
    [] field = "missionId" ->
         [token EXCEPT !.missionId = CHOOSE m \in Missions : m # @]
    [] field = "status" ->
         [token EXCEPT !.status = IF @ = "active" THEN "revoked" ELSE "active"]
    [] field = "verificationHash" ->
         [token EXCEPT !.verificationHash = <<48>>]
    [] field = "userId" ->
         [token EXCEPT !.userId = CHOOSE u \in Users : u # @]

Tamper(k, field) ==
  /\ tampered = 0
  /\ k \in 1..Len(ledger)
  /\ ledger' = [ledger EXCEPT ![k].token = TamperField(@, field)]
  /\ tampered' = k
  /\ UNCHANGED <<clock, tokens, last, pc, seen, built>>

NextTamper ==
  \/ Tick
  \/ \E r \in IssueRequests : Issue(r)
  \/ \E token \in tokens : tampered = 0 /\ AppendEntry(token, BlockSuffix)
  \/ \E k \in 1..MaxLedger, field \in TamperFields : Tamper(k, field)

SpecTamper == Init /\ [][NextTamper]_vars

\* --------------------------------------------------- stored entries changed
\* Besides a field of the token snapshot, a field of the entry itself may be
\* changed in storage.
EntryFields == {"previousHash", "timestamp", "signatures", "currentHash"}

TamperEntryField(entry, field) ==
  CASE field = "previousHash" -> [entry EXCEPT !.previousHash = <<48>>]
    [] field = "timestamp" -> [entry EXCEPT !.timestamp = toISOString(0)]
    [] field = "signatures" -> [entry EXCEPT !.signatures = <<>>]
    [] field = "currentHash" -> [entry EXCEPT !.currentHash = <<48>>]

TamperEntry(k, field) ==
  /\ tampered = 0
  /\ k \in 1..Len(ledger)
  /\ ledger' = [ledger EXCEPT ![k] = TamperEntryField(@, field)]
  /\ tampered' = k
  /\ UNCHANGED <<clock, tokens, last, pc, seen, built>>

NextStored ==
  \/ Tick
  \/ \E r \in IssueRequests : Issue(r)
  \/ \E token \in tokens : tampered = 0 /\ AppendEntry(token, BlockSuffix)
  \/ \E k \in 1..MaxLedger, field \in TamperFields : Tamper(k, field)
  \/ \E k \in 1..MaxLedger, field \in EntryFields : TamperEntry(k, field)

SpecStored == Init /\ [][NextStored]_vars

\* ----------------------------------------------------------- impact scores
\* calculateImpactEffectivenessScore applied to missions of three sizes with
\* outcome lists, verifications and peer feedback of every shape the code
\* tells apart: targets above the actual value, below it, missed, zero,
\* actual values below zero; feedback on the 1-5 and the 0-100 scale.
Scales ==
  { [teamSize |-> 50, budget |-> 100000, duration |-> 26,
     userResponsibilityLevel |-> "initiative", description |-> [length |-> 501]],
    [teamSize |-> 5, budget |-> 1000, duration |-> 4,
     userResponsibilityLevel |-> "project", description |-> [length |-> 150]],
    [teamSize |-> 0, budget |-> 0, duration |-> 0,
     userResponsibilityLevel |-> "undefined", description |-> [length |-> 0]] }

Outcome(targetValue, actualValue, verified) ==
  [metric |-> "people", targetValue |-> targetValue, actualValue |-> actualValue,
   unit |-> "count", verified |-> verified]

OutcomeLists ==
  { <<>>,
    <<Outcome(10, 12, TRUE)>>,
    <<Outcome(10, 30, TRUE)>>,
    <<Outcome(10, 30, TRUE), Outcome(1, 5, TRUE)>>,
    <<Outcome(4, 1, FALSE), Outcome(3, 3, TRUE)>>,
    <<Outcome(0, 0, FALSE)>>,
    <<Outcome(0, 0 - 5, FALSE)>>,
    <<Outcome(10, 0 - 1000, FALSE)>> }

Verifications ==
  { [organizationVerified |-> FALSE, verificationNotes |-> [length |-> 0],
     verifierRole |-> "Peer"],
    [organizationVerified |-> TRUE, verificationNotes |-> [length |-> 0],
     verifierRole |-> "Manager"],
    [organizationVerified |-> TRUE, verificationNotes |-> [length |-> 51],
     verifierRole |-> "Executive Director"] }

Feedback(score) == [score |-> score, comment |-> "ok"]

FeedbackLists ==
  { <<>>,
    <<Feedback(5)>>,
    <<Feedback(4), Feedback(5), Feedback(3)>>,
    <<Feedback(90)>>,
    <<Feedback(0 - 50)>> }

MissionData(id, scale, measurableOutcomes) ==
  [id |-> id, title |-> "Cleanup", organization |-> "orgA", location |-> "north",
   description |-> scale.description, teamSize |-> scale.teamSize,
   budget |-> scale.budget, duration |-> scale.duration,
   measurableOutcomes |-> measurableOutcomes,
   userResponsibilityLevel |-> scale.userResponsibilityLevel]

ScoreProbe(missionData, verification, peerFeedback) ==
  /\ last' = [op |-> "score",
              arg |-> [missionData |-> missionData, verification |-> verification,
                       peerFeedback |-> peerFeedback],
              error |-> "none",
              out |-> calculateImpactEffectivenessScore(missionData, verification,
                                                        peerFeedback)]
  /\ UNCHANGED <<clock, tokens, ledger, pc, seen, built, tampered>>

NextScore ==
  \E scale \in Scales, measurableOutcomes \in OutcomeLists,
     verification \in Verifications, peerFeedback \in FeedbackLists :
    ScoreProbe(MissionData("m1", scale, measurableOutcomes), verification, peerFeedback)

SpecScore == Init /\ [][NextScore]_vars

\* -------------------------------------------------------- anomalous claims
\* detectAnomalousImpactClaims applied to a user's missions each time one is
\* added.  A mission is scored by calculateImpactEffectivenessScore and
\* passed with its outcomes.  The missions: unverified with strength 81 and
\* with strength 80, verified with strength 92, a routine verified one, one
\* with an outcome at three times its target, an unverified one with two
\* such outcomes, and two with a target of 0.
BigScale == CHOOSE scale \in Scales : scale.teamSize = 50
SmallScale == CHOOSE scale \in Scales : scale.teamSize = 0
Unverified == CHOOSE verification \in Verifications : ~verification.organizationVerified
ByManager == CHOOSE verification \in Verifications : verification.verifierRole = "Manager"

RoutineInput ==
  [missionData |-> MissionData("mC", SmallScale, <<>>),
   verification |-> ByManager, peerFeedback |-> <<>>]

MissionInputs ==
  { [missionData |-> MissionData("mA", BigScale, <<Outcome(10, 12, TRUE)>>),
     verification |-> Unverified, peerFeedback |-> <<Feedback(5)>>],
    [missionData |-> MissionData("mF", BigScale, <<Outcome(10, 12, TRUE)>>),
     verification |-> Unverified,
     peerFeedback |-> <<Feedback(4), Feedback(5), Feedback(3)>>],
    [missionData |-> MissionData("mB", BigScale, <<Outcome(10, 12, TRUE)>>),
     verification |-> ByManager, peerFeedback |-> <<Feedback(5)>>],
    RoutineInput,
    [missionData |-> MissionData("mD", SmallScale, <<Outcome(10, 30, TRUE)>>),
     verification |-> ByManager, peerFeedback |-> <<>>],
    [missionData |-> MissionData("mH", BigScale,
                                 <<Outcome(10, 30, TRUE), Outcome(1, 5, TRUE)>>),
     verification |-> Unverified, peerFeedback |-> <<Feedback(5)>>],
    [missionData |-> MissionData("mN", SmallScale, <<Outcome(0, 0 - 5, FALSE)>>),
     verification |-> ByManager, peerFeedback |-> <<>>],
    [missionData |-> MissionData("mZ", SmallScale, <<Outcome(0, 0, FALSE)>>),
     verification |-> ByManager, peerFeedback |-> <<>>] }

\* The element of userMissions for a scored mission.
MissionOf(input) ==
  [score |-> calculateImpactEffectivenessScore(input.missionData, input.verification,
                                               input.peerFeedback),
   outcomes |-> input.missionData.measurableOutcomes]

UserMissionKinds == {MissionOf(input) : input \in MissionInputs}

\* A user's stored history of routine missions.
RoutineHistory == [i \in 1..HistoryLen |-> MissionOf(RoutineInput)]

\* The number of missions added on top of the stored history, if any.
Fresh(userMissions) ==
  IF /\ Len(userMissions) >= HistoryLen
     /\ SubSeq(userMissions, 1, HistoryLen) = RoutineHistory
  THEN Len(userMissions) - HistoryLen
  ELSE Len(userMissions)

AnomalyCall(userMissions) ==
  [op |-> "anomaly", arg |-> userMissions, error |-> "none",
   out |-> detectAnomalousImpactClaims(userMissions)]

LoadHistory ==
  /\ last = NoCall
  /\ last' = AnomalyCall(RoutineHistory)
  /\ UNCHANGED <<clock, tokens, ledger, pc, seen, built, tampered>>

AddMission(mission) ==
  /\ last.op \in {"none", "anomaly"}
  /\ Fresh(last.arg) < MaxMissions
  /\ last' = AnomalyCall(Append(last.arg, mission))
  /\ UNCHANGED <<clock, tokens, ledger, pc, seen, built, tampered>>

NextAnomaly ==
  \/ LoadHistory
  \/ \E mission \in UserMissionKinds : AddMission(mission)

SpecAnomaly == Init /\ [][NextAnomaly]_vars

\* ===================================================================== claims

\* C1: a ledger built by successive recordLedgerEntry calls, each given the
\* currentHash of the entry before it (the first the genesis default) and
\* not modified afterwards, is reported intact by verifyLedgerIntegrity,
\* with an empty brokenLinks list.
C1_UntamperedLedgerIntact ==
  verifyLedgerIntegrity(ledger) = [isIntact |-> TRUE, brokenLinks |-> <<>>]

\* C2: when a field of the token snapshot of entry k (0-based) is changed
\* after the append, verifyLedgerIntegrity reports exactly a hash mismatch
\* at k and a chain break between k and k+1 (when k+1 exists), nothing else.
C2_Expected(k, n) ==
  {[kind |-> "HashMismatch", block |-> k]}
    \cup (IF k + 1 < n THEN {[kind |-> "ChainBroken", block |-> k + 1]} ELSE {})

C2_TamperLocalized ==
  tampered # 0 =>
    LET report == verifyLedgerIntegrity(ledger).brokenLinks
    IN  {report[j] : j \in 1..Len(report)} = C2_Expected(tampered - 1, Len(ledger))

\* C3: for every token issueVerifiedImpactToken returned and every snapshot
\* revokeToken returned, the digest verifyTokenAuthenticity recomputes
\* (computeTokenHash of the token as it is) equals the stored
\* verificationHash.
C3_StoredHashRecomputes ==
  \A token \in tokens : computeTokenHash(token) = token.verificationHash

\* C4: two blocks that are equal except for one field of their token have
\* different canonical serializations under computeBlockHash.
C4_BlockDigestCoversToken ==
  \A i \in 1..Len(ledger), field \in TamperFields :
    BlockString([ledger[i] EXCEPT !.token = TamperField(@, field)])
      # BlockString(ledger[i])

\* C5: under any interleaving of two appenders no two ledger entries share
\* a previousHash, and every entry after the first has the currentHash of
\* the entry before it as its previousHash.
C5_NoSharedTail ==
  /\ \A i, j \in 1..Len(ledger) :
       i # j => ledger[i].previousHash # ledger[j].previousHash
  /\ \A i \in 2..Len(ledger) : ledger[i].previousHash = ledger[i - 1].currentHash

\* C6: after any sequence of appends the first entry has the genesis
\* constant as previousHash and every later entry the currentHash of the
\* entry before it, whatever link the caller passes or leaves out.
C6_LinkedFromGenesis ==
  Len(ledger) >= 1 =>
    /\ ledger[1].previousHash = GenesisHash
    /\ \A i \in 2..Len(ledger) : ledger[i].previousHash = ledger[i - 1].currentHash

\* The number an entry has in the chain its previousHash spells out: 0 on
\* the genesis constant, one more than the entry it names otherwise, -1
\* when it names no earlier entry.  LedgerEntry has no number of its own.
RECURSIVE ChainPosition(_, _)
ChainPosition(entries, i) ==
  IF entries[i].previousHash = GenesisHash THEN 0
  ELSE IF \E j \in 1..(i - 1) : entries[j].currentHash = entries[i].previousHash
       THEN LET j == CHOOSE k \in 1..(i - 1) :
                       entries[k].currentHash = entries[i].previousHash
                before == ChainPosition(entries, j)
            IN  IF before < 0 THEN -1 ELSE before + 1
       ELSE -1

\* C7: after N appends in any submission order, concurrent ones included,
\* the entries carry the numbers 0, 1, ..., N-1 without gap or repetition.
C7_GaplessNumbers ==
  \A i \in 1..Len(ledger) : ChainPosition(ledger, i) = i - 1

\* C8: every operation leaves the ledger as it was or adds exactly one
\* entry at the tail (only an append does); no entry is changed, removed
\* or reordered, and revokeToken leaves the token it was given unchanged.
C8_LedgerFrame ==
  [][ /\ ledger' # ledger =>
           /\ last'.op = "append"
           /\ ledger' = Append(ledger, last'.out)
      /\ tokens \subseteq tokens' ]_vars

\* C8 witness: a token recorded in the ledger has been revoked; the caller
\* still holds it as it was and the entry still carries it.
C8_RevokedRecordedToken ==
  /\ last.op = "revoke"
  /\ last.out.status = "revoked"
  /\ last.arg \in tokens
  /\ \E i \in 1..Len(ledger) : ledger[i].token = last.arg

\* C9: issueVerifiedImpactToken fails with InvalidInput and returns no
\* token when impactSignalStrength is outside 0..100 or the organization
\* signature is empty.
C9_InvalidInputRejected ==
  (/\ last.op = "issue"
   /\ \/ last.arg.mission.impactSignalStrength \notin 0..100
      \/ last.arg.signature = "")
    => (last.error = "InvalidInput" /\ last.out = <<>>)

\* C10: revokeToken fails with AlreadyRevoked when the token it is given is
\* not active, and produces no further revoked snapshot.
C10_AlreadyRevokedRejected ==
  (last.op = "revoke" /\ last.arg.status # "active")
    => (last.error = "AlreadyRevoked" /\ last.out = <<>>)

\* C11: when the revoked snapshot of a token is appended to the ledger, the
\* new entry records the action revoke, not issue.
C11_RevokeEntryAction ==
  \A i \in 1..Len(ledger) :
    ledger[i].token.status = "revoked" => ledger[i].action = "revoke"

\* The status of a token as the user's ledger history gives it: that of the
\* latest item of getUserTokenHistory with that tokenId, "none" without one.
CurrentStatus(userId, tokenId, entries) ==
  LET history == getUserTokenHistory(userId, entries)
      items == {i \in 1..Len(history) : history[i].tokenId = tokenId}
  IN  IF items = {} THEN "none"
      ELSE history[CHOOSE i \in items : \A j \in items : j <= i].status

\* The ledger holds a token as issued and, in a later entry, its revoked
\* snapshot, with no entry for that token after it.
IssuedThenRevoked(i, j) ==
  /\ i < j
  /\ ledger[i].token.status = "active"
  /\ ledger[j].token.status = "revoked"
  /\ ledger[j].token.tokenId = ledger[i].token.tokenId
  /\ ledger[j].token.userId = ledger[i].token.userId
  /\ \A k \in (j + 1)..Len(ledger) : ledger[k].token.tokenId # ledger[j].token.tokenId

\* C12: after a token is issued and appended, then revoked and the revoked
\* snapshot appended, the status the user's ledger history gives the token
\* is revoked.
C12_StatusAfterRevoke ==
  \A i, j \in 1..Len(ledger) :
    IssuedThenRevoked(i, j) =>
      CurrentStatus(ledger[i].token.userId, ledger[i].token.tokenId, ledger) = "revoked"

\* C12 witness: the ledger holds a token and then its revoked snapshot.
C12_RevocationRecorded ==
  \E i, j \in 1..Len(ledger) : IssuedThenRevoked(i, j)

\* C13: after a user's only token for a mission has been issued, appended,
\* revoked and the revocation appended, the duplicate check for that user
\* and mission over getUserTokenHistory returns no alert.
C13_NoDuplicateAfterRevoke ==
  \A i, j \in 1..Len(ledger) :
    (/\ IssuedThenRevoked(i, j)
     /\ \A k \in 1..Len(ledger) :
          (ledger[k].token.userId = ledger[i].token.userId
             /\ ledger[k].token.missionId = ledger[i].token.missionId)
            => ledger[k].token.tokenId = ledger[i].token.tokenId)
      => detectDuplicateClaims(ledger[i].token.userId, ledger[i].token.missionId,
                               getUserTokenHistory(ledger[i].token.userId, ledger),
                               clock, AlertSuffix) = <<>>

\* C14: detectDuplicateClaims returns an alert of type duplicate_claim with
\* severity high and action block exactly when existingTokens holds a token
\* with that userId, that missionId and status active, and null otherwise.
C14_DuplicateExactly ==
  last.op = "duplicateOf" =>
    LET userId == last.arg[1]
        missionId == last.arg[2]
        existingTokens == last.arg[3]
        matches == {i \in 1..Len(existingTokens) :
                      /\ existingTokens[i].userId = userId
                      /\ existingTokens[i].missionId = missionId}
    IN  IF \E i \in matches : existingTokens[i].status = "active"
        THEN /\ Len(last.out) = 1
             /\ last.out[1].alertType = "duplicate_claim"
             /\ last.out[1].severity = "high"
             /\ last.out[1].action = "block"
             /\ last.out[1].userId = userId
        ELSE last.out = <<>>

\* C14 witness: the list holds a revoked token of the user and mission and
\* nothing active for them, and the check returned null.
C14_OnlyRevokedMatch ==
  /\ last.op = "duplicateOf"
  /\ last.out = <<>>
  /\ \E i \in 1..Len(last.arg[3]) :
       /\ last.arg[3][i].userId = last.arg[1]
       /\ last.arg[3][i].missionId = last.arg[2]
       /\ last.arg[3][i].status = "revoked"

\* C15: across issue, revoke and append every snapshot of a token, the ones
\* stored in ledger entries included, carries the userId the token was
\* issued with and nonTransferable = true: a new token comes from an issue
\* for its user or from a revoke that keeps its argument's tokenId and
\* userId, and a ledger entry stores a token the caller holds, under that
\* token's userId.
C15_OwnerFixed ==
  [][ /\ \A token \in tokens' \ tokens :
           /\ token.nonTransferable = TRUE
           /\ \/ /\ last'.op = "issue"
                 /\ token = last'.out
                 /\ token.userId = last'.arg.userId
              \/ /\ last'.op = "revoke"
                 /\ token = last'.out
                 /\ last'.arg \in tokens
                 /\ token.tokenId = last'.arg.tokenId
                 /\ token.userId = last'.arg.userId
      /\ \A i \in 1..Len(ledger') :
           /\ ledger'[i].token \in tokens'
           /\ ledger'[i].userId = ledger'[i].token.userId
           /\ ledger'[i].token.nonTransferable = TRUE ]_vars

\* C15 witness: the ledger holds a token and its revoked snapshot, both
\* under the same user.
C15_TwoSnapshotsRecorded ==
  \E i, j \in 1..Len(ledger) :
    /\ ledger[i].token.status = "active"
    /\ ledger[j].token.status = "revoked"
    /\ ledger[i].token.tokenId = ledger[j].token.tokenId
    /\ ledger[i].userId = ledger[j].userId

\* The entries of a token's metadata, and the keys revokeToken writes.
MetadataEntries(token) == {token.metadata[i] : i \in 1..Len(token.metadata)}

RevocationKeys == {"revocationReason", "revocationDate", "revokerSignature"}

\* What revokeToken's result shares with its input whatever the metadata:
\* status revoked, the given reason and revoker signature ('fraud' and
\* 'sigR' in every call made here) in the metadata, and the identifying
\* fields of the input.
RevokedSnapshotOf(out, token) ==
  /\ out.status = "revoked"
  /\ <<"revocationReason", Codes("fraud")>> \in MetadataEntries(out)
  /\ <<"revokerSignature", Codes("sigR")>> \in MetadataEntries(out)
  /\ out.tokenId = token.tokenId
  /\ out.userId = token.userId
  /\ out.missionId = token.missionId
  /\ out.organization = token.organization
  /\ out.impactSignalStrength = token.impactSignalStrength
  /\ out.skillsMastered = token.skillsMastered
  /\ out.issuanceDate = token.issuanceDate
  /\ out.organizationSignature = token.organizationSignature

\* C16 as stated: revokeToken returns a snapshot with status revoked whose
\* metadata holds the given reason and revoker signature in addition to all
\* metadata entries of the input token, and whose tokenId, userId,
\* missionId, organization, impactSignalStrength, skillsMastered,
\* issuanceDate and organizationSignature equal those of the input.
C16_AllMetadataKept ==
  last.op = "revoke" =>
    /\ RevokedSnapshotOf(last.out, last.arg)
    /\ MetadataEntries(last.arg) \subseteq MetadataEntries(last.out)

\* C16 amended: as above, but of the input's metadata the entries kept are
\* those under keys other than revocationReason, revocationDate and
\* revokerSignature; entries under these three keys are overwritten, and
\* the result has no other keys.
C16_OtherMetadataKept ==
  last.op = "revoke" =>
    /\ RevokedSnapshotOf(last.out, last.arg)
    /\ \A entry \in MetadataEntries(last.arg) :
         entry[1] \notin RevocationKeys => entry \in MetadataEntries(last.out)
    /\ {entry[1] : entry \in MetadataEntries(last.out)}
         = {entry[1] : entry \in MetadataEntries(last.arg)} \cup RevocationKeys
    /\ Len(last.out.metadata) = Cardinality(MetadataEntries(last.out))

\* C16 witness: an active token whose metadata already had a
\* revocationReason entry has been revoked, and the entry was replaced.
C16_RevocationKeyOverwritten ==
  /\ last.op = "revoke"
  /\ last.arg.status = "active"
  /\ last.out.status = "revoked"
  /\ \E entry \in MetadataEntries(last.arg) :
       entry[1] \in RevocationKeys /\ entry \notin MetadataEntries(last.out)

\* C17: the digest of a record does not depend on the order in which its
\* fields were inserted: a token or block and the same token or block built
\* with its fields in another order get the same digest.
C17_OrderIndependent ==
  last.op = "rehash" => last.out[1] = last.out[2]

\* C17 witness: a block whose fields, and whose nested token's fields, were
\* inserted in reverse order has been hashed.
C17_ReversedBlockHashed ==
  /\ last.op = "rehash"
  /\ "block" \in DOMAIN last.arg
  /\ last.arg.order = 0
  /\ ObjectKeys(ReorderObj(BlockObj(last.arg.block), 0)) # ObjectKeys(BlockObj(last.arg.block))

\* C18: hashString gives different digests to different inputs: any two
\* distinct strings of the checked length get different values.
C18_NoCollision ==
  (last.op = "hash" /\ last.arg[1] # last.arg[2]) => last.out[1] # last.out[2]

\* The tokens of the entries at the positions idx of the ledger, in ledger
\* order: the item for position i is at the place i has among idx.
IsSelection(items, idx) ==
  /\ Len(items) = Cardinality(idx)
  /\ \A i \in idx : items[Cardinality({j \in idx : j <= i})] = ledger[i].token

\* C19 as stated: getUserTokenHistory(userId, ledger) returns, in ledger
\* order, one item for every ledger entry that belongs to that user,
\* whatever the entry's action, and no item of any other user.
C19_EveryEntryOfUser ==
  last.op = "history" =>
    IsSelection(last.out, {i \in 1..Len(ledger) : ledger[i].userId = last.arg})

\* C19 amended: one item for every ledger entry that belongs to that user
\* and has the action issue, in ledger order, and no other item.
C19_IssueEntriesOfUser ==
  last.op = "history" =>
    IsSelection(last.out, {i \in 1..Len(ledger) :
                             ledger[i].userId = last.arg /\ ledger[i].action = "issue"})

\* C19 witness: the history of a user was read from a ledger that holds an
\* issue entry and a revoke entry of that user; one item came back.
C19_RevokeEntryLeftOut ==
  /\ last.op = "history"
  /\ Len(last.out) = 1
  /\ \E i, j \in 1..Len(ledger) :
       /\ ledger[i].userId = last.arg /\ ledger[i].action = "issue"
       /\ ledger[j].userId = last.arg /\ ledger[j].action = "revoke"

\* The velocity alerts of a result of detectSuspiciousPatterns: the alerts
\* of type suspicious_pattern and severity medium.
VelocityAlerts(alerts) ==
  {i \in 1..Len(alerts) :
     alerts[i].alertType = "suspicious_pattern" /\ alerts[i].severity = "medium"}

\* C20 as stated: the velocity check raises an alert of severity medium with
\* action investigate whenever more than 2 of the user's tokens were issued
\* within some 7-day window, wherever it lies in time, and none otherwise.
C20_AnyWindow ==
  last.op = "velocity" =>
    LET list == last.arg.userTokens
        own == {i \in 1..Len(list) : list[i].userId = last.arg.userId}
        inWindow(from) == {i \in own : /\ IssuedAtOf(list[i]) >= from
                                       /\ IssuedAtOf(list[i]) < from + WeekMs}
    IN  (\E i \in own : Cardinality(inWindow(IssuedAtOf(list[i]))) > 2)
          <=> (VelocityAlerts(last.out) # {})

\* C20 amended: the velocity check raises one alert of type
\* suspicious_pattern, severity medium and action investigate exactly when
\* more than 2 of the tokens passed in have status active and were issued
\* less than 7 days before the call, and no velocity alert otherwise.
C20_PastWeekActive ==
  last.op = "velocity" =>
    LET list == last.arg.userTokens
        recent == {i \in 1..Len(list) : /\ list[i].status = "active"
                                        /\ IssuedAtOf(list[i]) > clock - WeekMs}
    IN  /\ (Cardinality(recent) > 2) <=> (VelocityAlerts(last.out) # {})
        /\ Cardinality(VelocityAlerts(last.out)) <= 1
        /\ \A i \in VelocityAlerts(last.out) :
             /\ last.out[i].action = "investigate"
             /\ last.out[i].userId = last.arg.userId

\* C20 witness: three active tokens of the user issued within two
\* milliseconds of each other, more than a week before the call, and no
\* velocity alert.
C20_OldBurstNoAlert ==
  /\ last.op = "velocity"
  /\ VelocityAlerts(last.out) = {}
  /\ Len(last.arg.userTokens) = 3
  /\ \A i \in 1..3 :
       /\ last.arg.userTokens[i].userId = last.arg.userId
       /\ last.arg.userTokens[i].status = "active"
       /\ IssuedAtOf(last.arg.userTokens[i]) <= 1
  /\ clock = 2 * WeekMs


\* The concentration alerts of a result of detectSuspiciousPatterns: the
\* alerts of type suspicious_pattern and severity high.
ConcentrationAlerts(alerts) ==
  {i \in 1..Len(alerts) :
     alerts[i].alertType = "suspicious_pattern" /\ alerts[i].severity = "high"}

\* C21: for a list of the user's own tokens, the organization-concentration
\* alert (severity high, action investigate) is raised exactly when more than
\* 3 of them are active and the active ones all come from one organization;
\* revoked or expired tokens do not count toward the threshold.
C21_ActiveTokensCounted ==
  (/\ last.op = "velocity"
   /\ \A i \in 1..Len(last.arg.userTokens) :
        last.arg.userTokens[i].userId = last.arg.userId) =>
    LET list == last.arg.userTokens
        active == {i \in 1..Len(list) : list[i].status = "active"}
        orgs == {list[i].organization : i \in active}
    IN  /\ (Cardinality(active) > 3 /\ Cardinality(orgs) = 1)
             <=> (ConcentrationAlerts(last.out) # {})
        /\ \A i \in ConcentrationAlerts(last.out) :
             last.out[i].action = "investigate"


\* C24: token ids are unique and deterministic: two issuances that differ in
\* user id, mission id or issuance timestamp get different tokenIds, and the
\* same (userId, missionId, timestamp) triple always gives the same tokenId.
C24_TokenIdUnique ==
  /\ \A s, t \in tokens :
       (\/ s.userId # t.userId
        \/ s.missionId # t.missionId
        \/ s.issuanceDate # t.issuanceDate) <=> (s.tokenId # t.tokenId)
  /\ last.op = "issue" =>
       \A t \in tokens :
         (/\ t.userId = last.out.userId
          /\ t.missionId = last.out.missionId
          /\ t.issuanceDate = last.out.issuanceDate) => t.tokenId = last.out.tokenId


\* The fields of a token other than its verificationHash.
WithoutVerificationHash(token) ==
  [f \in DOMAIN token \ {"verificationHash"} |-> token[f]]

\* C25: every token returned by issueVerifiedImpactToken has status active,
\* nonTransferable = true, no expiration date, and a verificationHash that is
\* the digest of the other fields of that same token.
C25_IssuedTokenShape ==
  last.op = "issue" =>
    /\ last.out.status = "active"
    /\ last.out.nonTransferable = TRUE
    /\ last.out.expirationDate = JNull
    /\ last.out.verificationHash = computeTokenHash(WithoutVerificationHash(last.out))
    /\ last.out.userId = last.arg.userId
    /\ last.out.missionId = last.arg.mission.id

\* C25 witness: a token was issued with caller metadata and got a digest.
C25_IssuedWithMetadata ==
  /\ last.op = "issue"
  /\ last.out.metadata # <<>>
  /\ Len(last.out.verificationHash) > 0
  /\ last.out \in tokens


\* Whether a list of issue texts has the given text.
HasIssue(issues, text) == \E i \in 1..Len(issues) : issues[i] = text

\* C28: verifyTokenAuthenticity returns isValid = true exactly when its
\* issues list is empty; it returns isValid = false, with the matching issue
\* listed, for every token with status revoked, for every token with
\* nonTransferable = false and for every ledger entry that carries no
\* organization signature, so a token checked against an entry recorded with
\* the default (empty) signature list is never valid.
C28_ValidIffNoIssues ==
  last.op = "verifyEntry" =>
    LET token == last.arg.token
        entry == last.arg.ledgerEntry
    IN  /\ last.out.isValid <=> (last.out.issues = <<>>)
        /\ token.status = "revoked" =>
             /\ ~last.out.isValid
             /\ HasIssue(last.out.issues, "Token has been revoked.")
        /\ ~token.nonTransferable =>
             /\ ~last.out.isValid
             /\ HasIssue(last.out.issues, "Token does not have non-transferable flag.")
        /\ entry.signatures = <<>> =>
             /\ ~last.out.isValid
             /\ HasIssue(last.out.issues, "No organization signatures present.")

\* C28 witness: an active, non-transferable token checked against an entry
\* recorded with the default signature list is not valid.
C28_DefaultSignaturesInvalid ==
  /\ last.op = "verifyEntry"
  /\ last.arg.token.status = "active"
  /\ last.arg.token.nonTransferable
  /\ last.arg.token.organizationSignature # ""
  /\ last.arg.ledgerEntry.signatures = <<>>
  /\ ~last.out.isValid


\* C29: verifyLedgerIntegrity never recomputes the hash of entry 0 and never
\* checks its previousHash against the genesis constant: every ledger of
\* length 0 or 1 is reported intact whatever the entry contains, and a change
\* confined to entry 0 that leaves its stored currentHash unchanged does not
\* change the report.
C29_EntryZeroUnchecked ==
  /\ [](Len(ledger) <= 1 =>
          verifyLedgerIntegrity(ledger) = [isIntact |-> TRUE, brokenLinks |-> <<>>])
  /\ [][(/\ tampered = 0
         /\ tampered' = 1
         /\ ledger'[1].currentHash = ledger[1].currentHash)
          => verifyLedgerIntegrity(ledger') = verifyLedgerIntegrity(ledger)]_vars

\* C29 witness: the only entry of a ledger was changed in storage so that it
\* no longer links to 'genesis', or so that it carries another user's token,
\* and the ledger is reported intact.
C29_ChangedFirstEntryIntact ==
  /\ tampered = 1
  /\ Len(ledger) = 1
  /\ \/ ledger[1].previousHash # GenesisHash
     \/ ledger[1].token.userId # ledger[1].userId
  /\ verifyLedgerIntegrity(ledger).isIntact


\* C26: for every input of calculateImpactEffectivenessScore, the
\* compositeImpactSignalStrength it returns is a number in 0..100.
C26_CompositeInRange ==
  last.op = "score" =>
    /\ IsFinite(last.out.compositeImpactSignalStrength)
    /\ ~NumLess(last.out.compositeImpactSignalStrength, Fin(0, 1))
    /\ ~NumLess(Fin(100, 1), last.out.compositeImpactSignalStrength)

\* C27: for every verification status and every number of peer feedback
\* items, the credibilityMultiplier returned by
\* calculateImpactEffectivenessScore lies in 0..1.
C27_MultiplierInUnitRange ==
  last.op = "score" =>
    /\ IsFinite(last.out.credibilityMultiplier)
    /\ ~NumLess(last.out.credibilityMultiplier, Fin(0, 1))
    /\ ~NumLess(Fin(1, 1), last.out.credibilityMultiplier)


\* The mission ids of the flagged items with the given text, in order.
FlaggedIds(flaggedItems, text) ==
  LET HasText(item) == item.text = text
      chosen == SelectSeq(flaggedItems, HasText)
  IN  [k \in 1..Len(chosen) |-> chosen[k].missionId]

\* C22: for every input with fewer than 3 missions, detectAnomalousImpactClaims
\* produces no outlier flag and no outcome-inflation flag, whatever the impact
\* strengths are, equal strengths (standard deviation 0) included.
C22_SmallSampleNoFlags ==
  (last.op = "anomaly" /\ Len(last.arg) < 3) =>
    /\ FlaggedIds(last.out.flaggedItems, "Outlier score detected") = <<>>
    /\ FlaggedIds(last.out.flaggedItems, "Potential outcome inflation") = <<>>


\* The scored missions a userMissions element can stem from.
ScoredInputs == {[input |-> input, mission |-> MissionOf(input)] : input \in MissionInputs}

InputsOf(mission) == {scored.input : scored \in {s \in ScoredInputs : s.mission = mission}}

\* C23: for every mission whose impact strength is above 80 and whose
\* verification level is below organization-verified (organizationVerified =
\* false, verification score 20), detectAnomalousImpactClaims reports a 'High
\* impact claim without verification' item for that mission, and it reports
\* no such item for a mission with strength 80 or less or one that is
\* organization-verified.
C23_UnverifiedHighImpactFlagged ==
  last.op = "anomaly" =>
    LET IsClaimed(mission) ==
          \E input \in InputsOf(mission) :
            /\ NumLess(Fin(80, 1), mission.score.compositeImpactSignalStrength)
            /\ ~input.verification.organizationVerified
        claimed == SelectSeq(last.arg, IsClaimed)
    IN  /\ FlaggedIds(last.out.flaggedItems, "High impact claim without verification")
             = [k \in 1..Len(claimed) |-> claimed[k].score.missionId]
        /\ \A i \in 1..Len(last.arg) : \A input \in InputsOf(last.arg[i]) :
             ~input.verification.organizationVerified
               <=> last.arg[i].score.organizationVerificationScore = Fin(20, 1)

\* C23 witness: of an unverified mission of strength 81, an unverified one of
\* strength 80 and a verified one of strength 92, only the first is reported.
C23_OnlyAbove80Unverified ==
  /\ last.op = "anomaly"
  /\ [i \in 1..Len(last.arg) |-> last.arg[i].score.missionId] = <<"mF", "mA", "mB">>
  /\ last.arg[1].score.compositeImpactSignalStrength = Fin(80, 1)
  /\ last.arg[2].score.compositeImpactSignalStrength = Fin(81, 1)
  /\ last.arg[3].score.compositeImpactSignalStrength = Fin(92, 1)
  /\ FlaggedIds(last.out.flaggedItems, "High impact claim without verification") = <<"mA">>

\* The risk accumulated over userMissions: 15 per outlier mission, 10 per
\* outcome with an actual value above twice its target, 20 per mission of
\* strength above 80 with an organization verification score below 30.
AccumulatedRisk(userMissions) ==
  LET n == Len(userMissions)
      scores == [i \in 1..n |-> userMissions[i].score.compositeImpactSignalStrength]
      outliers == {i \in 1..n : IsOutlier(scores, i)}
      inflated == {<<i, k>> \in (1..n) \X (1..2) :
                     /\ k <= Len(userMissions[i].outcomes)
                     /\ userMissions[i].outcomes[k].actualValue
                          > 2 * userMissions[i].outcomes[k].targetValue}
      unverified == {i \in 1..n :
                       /\ NumLess(Fin(80, 1), scores[i])
                       /\ NumLess(userMissions[i].score.organizationVerificationScore,
                                  Fin(30, 1))}
  IN  15 * Cardinality(outliers) + 10 * Cardinality(inflated)
        + 20 * Cardinality(unverified)

\* C30: detectAnomalousImpactClaims returns isAnomalous = true exactly when
\* the accumulated risk is greater than 20, and riskScore is that sum capped
\* at 100; a result with exactly one flagged item of any kind is never marked
\* anomalous.
C30_AnomalousAbove20 ==
  last.op = "anomaly" =>
    LET risk == AccumulatedRisk(last.arg)
        items == last.out.flaggedItems
    IN  /\ last.out.isAnomalous <=> (risk > 20)
        /\ last.out.riskScore = (IF risk > 100 THEN 100 ELSE risk)
        /\ risk = 15 * Len(FlaggedIds(items, "Outlier score detected"))
                    + 10 * Len(FlaggedIds(items, "Potential outcome inflation"))
                    + 20 * Len(FlaggedIds(items, "High impact claim without verification"))
        /\ Len(items) = 1 => ~last.out.isAnomalous

\* C30 witness: one unverified high-impact mission among three gives one
\* flagged item and a riskScore of 20, and the result is not anomalous.
C30_SingleItemNotAnomalous ==
  /\ last.op = "anomaly"
  /\ Len(last.arg) = 3
  /\ Len(last.out.flaggedItems) = 1
  /\ last.out.flaggedItems[1].text = "High impact claim without verification"
  /\ last.out.riskScore = 20
  /\ ~last.out.isAnomalous

====
